---- MODULE Spec2Model ----
(***************************************************************************)
(* Model of dev::shared_ptr (include/shared_ptr/shared_ptr.h): owning      *)
(* handles, control blocks with an atomic reference counter, and the       *)
(* payloads they manage.                                                   *)
(*                                                                         *)
(* Pointers are small integers, 0 is nullptr.  Heap objects are never      *)
(* given the address of an object that was freed, so a dangling pointer    *)
(* stays recognisable.                                                     *)
(*                                                                         *)
(* m_ref_count is std::atomic<unsigned long long>.  Its value is kept as   *)
(* the representative of its residue class modulo 2^64 that lies nearest   *)
(* to zero: a negative integer v stands for the unsigned value 2^64 + v    *)
(* (so -1 is 0xFFFFFFFFFFFFFFFF, what fetch_sub(1) leaves behind when the  *)
(* counter was 0).  All counters of the model stay within MaxRefCount of   *)
(* zero, where this representation is exact.                               *)
(*                                                                         *)
(* An operation that does something undefined (a call through a null or    *)
(* freed control block, a second delete, a delete of an object that is a   *)
(* member of another allocation) records it in ub and is the last step of  *)
(* the behaviour: what the build does afterwards is not constrained, so no *)
(* later state is described.                                               *)
(*                                                                         *)
(* An operation that ends with an exception records in thrown what the     *)
(* caller sees; the next operation that returns normally clears it.        *)
(***************************************************************************)
EXTENDS Integers, FiniteSets, Sequences, TLC

\* ---------------------------------------------------------------- bounds
NumHandles == 3
MaxCB == 2
MaxPayload == 2
MaxRefCount == 3
\* dev::spsc_queue<T, N>: the template argument N, and how many values the
\* producer offers
SpscN == 2
SpscMaxPush == 5
\* dev::threadsafe_queue: the threads that use one queue and the number of
\* calls each of them makes
TqNumThreads == 4
TqOps == 1
\* threadsafe_stack: the number of threads, which is also the number of
\* elements a full stack starts with
TsNumThreads == 4
\* threadsafe_stack::swap: the number of threads that swap the same pair
SwNumThreads == 2
\* dev::vector: the largest capacity, and the largest element value
VecMaxCap == 4
VecMaxVal == 2
\* dev::unique_ptr: the number of handle objects and of heap objects
UpNumHandles == 2
UpMaxPtr == 3
\* memory ordering of the reference counter: the number of owner threads
MoNumThreads == 3
\* draft control blocks: the number of handle objects
DraftNumHandles == 4

\* ------------------------------------------------------------- constants
Null == 0
Tmp == 0

Handles == 1..NumHandles
Slots == 0..NumHandles
BlockIds == 1..MaxCB
PayloadIds == 1..MaxPayload

\* the argument lists handed to make_shared: none, one value, two values
ArgLists == {<<>>, <<1>>, <<1, 2>>}

VARIABLES
    handles,    \* slot -> [live, m_raw_underlying_ptr, m_control_block_ptr]
    blocks,     \* control block id -> [state, m_ref_count, deleter, storage, destroyer]
    payloads,   \* payload id -> [state, destroyed, by, inBlock, value]
    ub,         \* "none", or the undefined operation the program performed
    arrayMode,  \* TRUE: the handles are dev::shared_ptr<T[]>, FALSE: dev::shared_ptr<T>
    thrown,     \* "none", or the exception the last operation left with
    pc,         \* thread -> its position in the copy / read / destroy sequence
    sawZero,    \* thread -> its decrement returned 0 (it saw the last share go)
    spsc,       \* a dev::spsc_queue with its producer and its consumer thread
    tq,         \* a dev::threadsafe_queue with the threads that call it
    ts,         \* a dev::threadsafe_stack with the threads that call it
    sw,         \* two dev::threadsafe_stack objects with the threads that swap them
    vec,        \* a dev::vector<int> and what its last call returned
    up,         \* dev::unique_ptr handles and the heap objects they were given
    mo,         \* the reference counter under the C++ memory model: who has seen which write
    draft       \* handles of the draft shared_ptr and their one control block

vars == <<handles, blocks, payloads, ub, arrayMode, thrown, pc, sawZero, spsc, tq, ts, sw, vec, up, mo, draft>>

\* the state of the components other than dev::shared_ptr
restVars == <<spsc, tq, ts, sw, vec, up, mo, draft>>

RECURSIVE Pow2(_)
Pow2(n) == IF n = 0 THEN 1 ELSE 2 * Pow2(n - 1)

\* spsc_queue: m_capacity = pow(2, N); m_buffer holds default-initialised
\* elements (0), both indices start at 0; no call is in progress
m_capacity == Pow2(SpscN)
SpscInit ==
    [m_buffer |-> [i \in 0..(m_capacity - 1) |-> 0],
     m_read_index |-> 0, m_write_index |-> 0,
     ppc |-> "idle", write_index |-> 0, next_write_index |-> 0, element |-> 0,
     cpc |-> "idle", read_index |-> 0, result |-> 0,
     pushed |-> <<>>, popped |-> <<>>,
     push_returned |-> "none", pop_returned |-> "none"]

\* threadsafe_queue() = default: an empty std::queue, a free mutex, nobody
\* waiting on not_empty_; no thread has anything to do
TqThreads == 1..TqNumThreads
TqInit ==
    [m_queue |-> <<>>, m_mutex |-> 0, waiters |-> {},
     tpc |-> [t \in TqThreads |-> "idle"],
     role |-> [t \in TqThreads |-> "none"],
     left |-> [t \in TqThreads |-> 0],
     got |-> [t \in TqThreads |-> <<>>]]

TsThreads == 1..TsNumThreads

\* threadsafe_stack() = default, no thread calling it
TsInit ==
    [m_stack |-> <<>>, m_shared_mutex |-> 0,
     spc |-> [t \in TsThreads |-> "done"],
     role |-> [t \in TsThreads |-> "none"],
     element |-> [t \in TsThreads |-> 0],
     ret |-> [t \in TsThreads |-> <<>>],
     stored |-> 0]

SwThreads == 1..SwNumThreads
\* the two stack objects of a swap
SwStacks == {1, 2}

\* two empty stacks, no thread calling swap
SwInit ==
    [m_stack |-> [x \in SwStacks |-> <<>>],
     m_shared_mutex |-> [x \in SwStacks |-> 0],
     orig |-> [x \in SwStacks |-> <<>>],
     wpc |-> [t \in SwThreads |-> "done"],
     this |-> [t \in SwThreads |-> 1],
     first |-> [t \in SwThreads |-> 1],
     tmp |-> [t \in SwThreads |-> <<>>]]

\* a slot of raw memory in which no element is constructed
Raw == -1

\* vector() = default
VecInit ==
    [m_elements |-> <<>>, m_size |-> 0, m_capacity |-> 0,
     ret |-> -1, vub |-> "none", halted |-> FALSE]

UpHandles == 1..UpNumHandles
UpPtrs == 1..UpMaxPtr

\* no unique_ptr object exists, no heap object has been allocated
UpInit ==
    [live |-> [h \in UpHandles |-> FALSE],
     m_underlying_ptr |-> [h \in UpHandles |-> 0],
     taken |-> [p \in UpPtrs |-> FALSE],
     deleted |-> [p \in UpPtrs |-> 0],
     released |-> [p \in UpPtrs |-> FALSE]]

MoThreads == 1..MoNumThreads

\* no control block, no owner thread
MoInit ==
    [variant |-> "none", m_ref_count |-> 0, count_view |-> {},
     view |-> [t \in MoThreads |-> {}],
     mpc |-> [t \in MoThreads |-> "gone"],
     handles |-> [t \in MoThreads |-> 0],
     wrote |-> [t \in MoThreads |-> FALSE],
     destroyed |-> FALSE, seen |-> {}]

DraftHandles == 1..DraftNumHandles

\* no handle object exists, nothing is allocated
DraftInit ==
    [variant |-> "none",
     handle |-> [h \in DraftHandles |-> "unborn"],
     block |-> "unallocated", m_ref_count |-> 0, payload |-> "unallocated"]

RestInit == spsc = SpscInit /\ tq = TqInit /\ ts = TsInit /\ sw = SwInit /\ vec = VecInit /\ up = UpInit /\ mo = MoInit /\ draft = DraftInit

\* The part of the state the operations of the handle transform.
Cur == [handles |-> handles, blocks |-> blocks, payloads |-> payloads, ub |-> ub]

Commit(S) ==
    /\ handles' = S.handles
    /\ blocks' = S.blocks
    /\ payloads' = S.payloads
    /\ ub' = S.ub
    /\ thrown' = "none"
    /\ UNCHANGED <<arrayMode, pc, sawZero, restVars>>

NoHandle == [live |-> FALSE, m_raw_underlying_ptr |-> Null, m_control_block_ptr |-> Null]
NoBlock == [state |-> "unused", m_ref_count |-> 0, deleter |-> "none", storage |-> FALSE,
            destroyer |-> FALSE]
NoPayload == [state |-> "unused", destroyed |-> 0, by |-> "none", inBlock |-> Null,
              value |-> <<>>]

\* std::default_delete<T> for dev::shared_ptr<T>, std::default_delete<T[]> for
\* dev::shared_ptr<T[]>
DefaultDeleter(isArray) == IF isArray THEN "default_delete_array" ELSE "default_delete"

Min(S) == CHOOSE x \in S : \A y \in S : x <= y

UnusedBlocks(S) == {c \in BlockIds : S.blocks[c].state = "unused"}
UnusedPayloads(S) == {p \in PayloadIds : S.payloads[p].state = "unused"}
FreshBlock(S) == Min(UnusedBlocks(S))
FreshPayload(S) == Min(UnusedPayloads(S))

Stop(S, what) == [S EXCEPT !.ub = what]

\* ------------------------------------------------------- destroy_wrapper
\* destroy_wrapper::operator()(ptr): runs the stored deleter on ptr.
\* Deleting nullptr does nothing; deleting a pointer that was already
\* deleted, or one that points into another allocation, is undefined.
destroy_wrapper_call(S, cb, ptr) ==
    IF ptr = Null THEN S
    ELSE IF S.payloads[ptr].inBlock # Null
         THEN Stop([S EXCEPT !.payloads[ptr].destroyed = @ + 1,
                             !.payloads[ptr].state = "destroyed",
                             !.payloads[ptr].by = S.blocks[cb].deleter],
                   "delete_of_embedded_object")
    ELSE IF S.payloads[ptr].state = "destroyed"
         THEN Stop([S EXCEPT !.payloads[ptr].destroyed = @ + 1], "double_free")
    ELSE [S EXCEPT !.payloads[ptr].destroyed = @ + 1,
                   !.payloads[ptr].state = "destroyed",
                   !.payloads[ptr].by = S.blocks[cb].deleter]

\* ---------------------------------------------------- control_block_base
\* new control_block(ref_count, wrapper).  The wrapper was built by
\* destroy_wrapper(Deleter&&), which puts a destroyer<Deleter> on the heap
\* (std::make_unique); the block's m_destroy_wrapper takes it over and
\* ~control_block_base frees it with the block.
new_control_block(S, cb, ref_count, deleter) ==
    [S EXCEPT !.blocks[cb] = [state |-> "live", m_ref_count |-> ref_count,
                              deleter |-> deleter, storage |-> FALSE,
                              destroyer |-> TRUE]]

\* new control_block_with_storage(wrapper, args...): the counter starts at 1
\* and the payload obj is the member m_object of the block, initialised by
\* m_object(std::forward<Args>(args)...).
new_control_block_with_storage(S, cb, obj, args) ==
    [S EXCEPT !.blocks[cb] = [state |-> "live", m_ref_count |-> 1,
                              deleter |-> "default_delete", storage |-> TRUE,
                              destroyer |-> TRUE],
              !.payloads[obj] = [state |-> "alive", destroyed |-> 0, by |-> "none",
                                 inBlock |-> cb, value |-> args]]

\* an increment whose update is lost
increment_lost(S, cb) == S

\* m_ref_count.fetch_add(1u)
increment(S, cb) ==
    IF S.blocks[cb].state # "live" THEN Stop(S, "use_after_free")
    ELSE [S EXCEPT !.blocks[cb].m_ref_count = @ + 1]

\* a decrement whose update is lost
pre_decrement_lost(S, cb) == S

\* --m_ref_count (the value after the decrement is S.blocks[cb].m_ref_count)
pre_decrement(S, cb) == [S EXCEPT !.blocks[cb].m_ref_count = @ - 1]

\* delete this: the block is freed; a payload stored inside it dies with it.
delete_this(S, cb) ==
    [S EXCEPT !.blocks[cb] = [NoBlock EXCEPT !.state = "freed"],
              !.payloads = [p \in PayloadIds |->
                  IF @[p].inBlock = cb /\ S.blocks[cb].storage
                  THEN [@[p] EXCEPT !.state = "destroyed", !.destroyed = @ + 1,
                                    !.by = "block_destructor"]
                  ELSE @[p]]]

\* release_shared testing the value the counter had before the decrement
release_shared_stale(S, cb, raw_underlying_ptr) ==
    IF cb = Null THEN Stop(S, "null_control_block")
    ELSE IF S.blocks[cb].state # "live" THEN Stop(S, "use_after_free")
    ELSE LET S1 == pre_decrement(S, cb) IN
         IF S.blocks[cb].m_ref_count = 0
         THEN IF S1.blocks[cb].storage
              THEN delete_this(S1, cb)
              ELSE LET S2 == destroy_wrapper_call(S1, cb, raw_underlying_ptr) IN
                   IF S2.ub # "none" THEN S2 ELSE delete_this(S2, cb)
         ELSE S1

\* control_block::release_shared and control_block_with_storage::release_shared
release_shared(S, cb, raw_underlying_ptr) ==
    IF cb = Null THEN Stop(S, "null_control_block")
    ELSE IF S.blocks[cb].state # "live" THEN Stop(S, "use_after_free")
    ELSE LET S1 == pre_decrement(S, cb) IN
         IF S1.blocks[cb].m_ref_count = 0
         THEN IF S1.blocks[cb].storage
              THEN delete_this(S1, cb)
              ELSE LET S2 == destroy_wrapper_call(S1, cb, raw_underlying_ptr) IN
                   IF S2.ub # "none" THEN S2 ELSE delete_this(S2, cb)
         ELSE S1

\* ------------------------------------------------------- shared_ptr_base
Handle(raw, cb) == [live |-> TRUE, m_raw_underlying_ptr |-> raw, m_control_block_ptr |-> cb]

\* shared_ptr_base(std::nullptr_t), reached from shared_ptr() and
\* shared_ptr(std::nullptr_t): control_block() delegates to
\* control_block_base(0u, default_delete<T>).  For dev::shared_ptr<T[]> the
\* same state is built by shared_ptr_base(nullptr, default_delete<T[]>),
\* whose else branch calls control_block(wrapper), again with counter 0.
ctor_nullptr(S, h, isArray) ==
    LET cb == FreshBlock(S)
        S1 == new_control_block(S, cb, 0, DefaultDeleter(isArray))
    IN [S1 EXCEPT !.handles[h] = Handle(Null, cb)]

\* new T(...) by the caller: a payload on the heap
new_payload(S, p) ==
    [S EXCEPT !.payloads[p] = [state |-> "alive", destroyed |-> 0, by |-> "none",
                               inBlock |-> Null, value |-> <<>>]]

\* shared_ptr(T* ptr): shared_ptr_base(ptr) stores ptr and a null control
\* block, the body then allocates control_block(1u, default deleter).
ctor_raw(S, h, ptr, isArray) ==
    LET cb == FreshBlock(S)
        S1 == [S EXCEPT !.handles[h] = Handle(ptr, Null)]
        S2 == new_control_block(S1, cb, 1, DefaultDeleter(isArray))
    IN [S2 EXCEPT !.handles[h].m_control_block_ptr = cb]

\* a constructor that drops the caller's deleter and installs default_delete
ctor_deleter_drops_deleter(S, h, ptr) ==
    LET cb == FreshBlock(S)
        S1 == [S EXCEPT !.handles[h] = Handle(ptr, Null)]
        S2 == new_control_block(S1, cb, 1, "default_delete")
    IN [S2 EXCEPT !.handles[h].m_control_block_ptr = cb]

\* shared_ptr(T* ptr, Deleter deleter) -> shared_ptr_base(T*, destroy_wrapper&&)
ctor_deleter(S, h, ptr) ==
    LET cb == FreshBlock(S)
        S1 == [S EXCEPT !.handles[h] = Handle(ptr, Null)]
        S2 == IF ptr # Null THEN new_control_block(S1, cb, 1, "custom")
                            ELSE new_control_block(S1, cb, 0, "custom")
    IN [S2 EXCEPT !.handles[h].m_control_block_ptr = cb]

\* shared_ptr(Args... args) -> shared_ptr_base(Args&&...): the arguments are
\* taken by value and forwarded to the payload's constructor
ctor_args(S, h, obj, args) ==
    LET cb == FreshBlock(S)
        S1 == new_control_block_with_storage(S, cb, obj, args)
    IN [S1 EXCEPT !.handles[h] = Handle(obj, cb)]

\* make_shared<T>(args...) returns shared_ptr<T>(std::forward<Args>(args)...).
\* Overload resolution picks the constructor: with no argument the
\* non-template shared_ptr() is a better match than the variadic template
\* shared_ptr(Args...) with an empty pack.
make_shared(S, h, obj, args) ==
    IF args = <<>> THEN ctor_nullptr(S, h, FALSE)
    ELSE ctor_args(S, h, obj, args)

\* a copy constructor that forgets to count the new owner
ctor_copy_no_increment(S, h, other) ==
    [S EXCEPT !.handles[h] =
         Handle(S.handles[other].m_raw_underlying_ptr,
                S.handles[other].m_control_block_ptr)]

\* shared_ptr_base(const shared_ptr_base& other)
ctor_copy(S, h, other) ==
    LET S1 == [S EXCEPT !.handles[h] =
                   Handle(S.handles[other].m_raw_underlying_ptr,
                          S.handles[other].m_control_block_ptr)]
    IN IF S1.handles[h].m_control_block_ptr # Null
       THEN increment(S1, S1.handles[h].m_control_block_ptr)
       ELSE S1

\* a move constructor that leaves the source's pointers in place
ctor_move_keeps_source(S, h, other) ==
    [S EXCEPT !.handles[h] =
         Handle(S.handles[other].m_raw_underlying_ptr,
                S.handles[other].m_control_block_ptr)]

\* shared_ptr_base(shared_ptr_base&& other)
ctor_move(S, h, other) ==
    LET raw == S.handles[other].m_raw_underlying_ptr
        cb == S.handles[other].m_control_block_ptr
        S1 == [S EXCEPT !.handles[other].m_raw_underlying_ptr = Null,
                        !.handles[other].m_control_block_ptr = Null]
    IN [S1 EXCEPT !.handles[h] = Handle(raw, cb)]

\* shared_ptr_base::swap
swap(S, a, b) ==
    [S EXCEPT !.handles[a].m_raw_underlying_ptr = S.handles[b].m_raw_underlying_ptr,
              !.handles[a].m_control_block_ptr = S.handles[b].m_control_block_ptr,
              !.handles[b].m_raw_underlying_ptr = S.handles[a].m_raw_underlying_ptr,
              !.handles[b].m_control_block_ptr = S.handles[a].m_control_block_ptr]

\* ~shared_ptr_base()
dtor(S, h) ==
    IF S.ub # "none" THEN S
    ELSE LET raw == S.handles[h].m_raw_underlying_ptr
             S1 == IF raw # Null
                   THEN release_shared(S, S.handles[h].m_control_block_ptr, raw)
                   ELSE S
         IN IF S1.ub # "none" THEN S1 ELSE [S1 EXCEPT !.handles[h] = NoHandle]

\* delete ptr / delete[] ptr written in a constructor's catch block
delete_expression(S, ptr, isArray) ==
    IF ptr = Null THEN S
    ELSE IF S.payloads[ptr].state = "destroyed"
         THEN Stop([S EXCEPT !.payloads[ptr].destroyed = @ + 1], "double_free")
    ELSE [S EXCEPT !.payloads[ptr].destroyed = @ + 1,
                   !.payloads[ptr].state = "destroyed",
                   !.payloads[ptr].by = DefaultDeleter(isArray)]

\* shared_ptr(T* ptr) when new control_block(...) throws std::bad_alloc:
\* shared_ptr_base(ptr) has completed with the pointer stored and a null
\* control block; the catch block deletes ptr and throws; leaving the
\* constructor body destroys the base subobject, so ~shared_ptr_base runs on
\* the stored pointers.
ctor_raw_bad_alloc(S, h, ptr, isArray) ==
    LET S1 == [S EXCEPT !.handles[h] = Handle(ptr, Null)]
        S2 == delete_expression(S1, ptr, isArray)
    IN dtor(S2, h)

\* a catch block that only rethrows, leaving the pointee to the caller
ctor_deleter_bad_alloc_leaks(S, h, ptr) == S

\* shared_ptr_base(T* ptr, destroy_wrapper&& destroyer) when
\* new control_block(...) throws std::bad_alloc: the allocation fails before
\* the block's constructor can move from destroyer, the catch block calls
\* destroyer(ptr) and throws; no object was constructed, no destructor runs.
ctor_deleter_bad_alloc(S, h, ptr) ==
    IF ptr = Null THEN S
    ELSE IF S.payloads[ptr].state = "destroyed"
         THEN Stop([S EXCEPT !.payloads[ptr].destroyed = @ + 1], "double_free")
    ELSE [S EXCEPT !.payloads[ptr].destroyed = @ + 1,
                   !.payloads[ptr].state = "destroyed",
                   !.payloads[ptr].by = "custom"]

\* a payload constructor failure after which the block's memory is kept
ctor_args_throws_keeps_block(S, h, obj, args) ==
    [S EXCEPT !.blocks[FreshBlock(S)] = [state |-> "live", m_ref_count |-> 1,
                                         deleter |-> "default_delete",
                                         storage |-> TRUE, destroyer |-> TRUE]]

\* shared_ptr_base(Args&&...) when T's constructor throws inside
\* new control_block_with_storage(wrapper, args...): the memory is obtained,
\* control_block_base is constructed (taking over the wrapper's destroyer),
\* m_object(args...) throws; the base subobject is destroyed, which frees
\* the destroyer, and the new-expression frees the memory.  m_object never
\* existed and the handle's constructor never completed.
ctor_args_throws(S, h, obj, args) ==
    LET cb == FreshBlock(S)
        S1 == [S EXCEPT !.blocks[cb] = [state |-> "live", m_ref_count |-> 1,
                                        deleter |-> "default_delete",
                                        storage |-> TRUE, destroyer |-> TRUE]]
    IN [S1 EXCEPT !.blocks[cb] = [NoBlock EXCEPT !.state = "freed"]]

\* a copy assignment that releases the target before it copies the source
assign_copy_releases_first(S, this, other) ==
    LET S1 == dtor(S, this) IN
    IF S1.ub # "none" THEN S1
    ELSE LET S2 == [S1 EXCEPT !.handles[this].live = TRUE] IN
         ctor_copy(S2, this, other)

\* a copy assignment whose temporary never releases what the target held
assign_copy_keeps_old(S, this, other) ==
    LET S1 == ctor_copy(S, Tmp, other) IN
    IF S1.ub # "none" THEN S1
    ELSE [swap(S1, Tmp, this) EXCEPT !.handles[Tmp] = NoHandle]

\* operator=(const shared_ptr_base& other): shared_ptr_base{ other }.swap(*this)
assign_copy(S, this, other) ==
    LET S1 == ctor_copy(S, Tmp, other) IN
    IF S1.ub # "none" THEN S1 ELSE dtor(swap(S1, Tmp, this), Tmp)

\* a move assignment that releases the target first and takes over afterwards
assign_move_steps_release_first(S, this, other) ==
    LET S1 == dtor(S, this)
        S2 == IF S1.ub # "none" THEN S1
              ELSE [S1 EXCEPT !.handles[this] =
                        Handle(S1.handles[other].m_raw_underlying_ptr,
                               S1.handles[other].m_control_block_ptr),
                              !.handles[other] = IF other = this THEN @
                                                 ELSE Handle(Null, Null)]
    IN <<S1, S2, S2>>

\* operator=(shared_ptr_base&& other): shared_ptr_base{ std::move(other) }.swap(*this)
\* The states after each of its three steps: the temporary is move
\* constructed from other, the temporary is swapped with *this, the
\* temporary is destroyed at the end of the full expression.
assign_move_steps(S, this, other) ==
    LET S1 == ctor_move(S, Tmp, other)
        S2 == swap(S1, Tmp, this)
    IN <<S1, S2, dtor(S2, Tmp)>>

assign_move(S, this, other) == assign_move_steps(S, this, other)[3]

\* shared_ptr_base::use_count() const
use_count(S, h) ==
    IF S.handles[h].m_control_block_ptr # Null
    THEN S.blocks[S.handles[h].m_control_block_ptr].m_ref_count
    ELSE 0

\* shared_ptr_base::get()
get(S, h) == S.handles[h].m_raw_underlying_ptr

\* reset_base without the test for the pointer already held
reset_base_unguarded(S, h, ptr, wrapper) ==
    LET raw == S.handles[h].m_raw_underlying_ptr
        cb == S.handles[h].m_control_block_ptr
    IN IF cb = Null THEN Stop(S, "null_control_block")
       ELSE IF S.blocks[cb].state # "live" THEN Stop(S, "use_after_free")
       ELSE LET S1 == pre_decrement(S, cb) IN
            IF S1.blocks[cb].m_ref_count = 0
            THEN LET S2 == destroy_wrapper_call(S1, cb, raw) IN
                 IF S2.ub # "none" THEN S2
                 ELSE [S2 EXCEPT !.blocks[cb].m_ref_count = 1,
                                 !.handles[h].m_raw_underlying_ptr = ptr]
            ELSE IF UnusedBlocks(S1) = {} THEN S1
            ELSE LET ncb == FreshBlock(S1)
                     S2 == new_control_block(S1, ncb, 1, wrapper)
                 IN [S2 EXCEPT !.handles[h].m_control_block_ptr = ncb,
                               !.handles[h].m_raw_underlying_ptr = ptr]

\* reset_base that leaves the shared counter alone when other owners remain
reset_base_keeps_count(S, h, ptr, wrapper) ==
    LET raw == S.handles[h].m_raw_underlying_ptr
        cb == S.handles[h].m_control_block_ptr
    IN IF raw # ptr
       THEN IF cb = Null THEN Stop(S, "null_control_block")
            ELSE IF S.blocks[cb].state # "live" THEN Stop(S, "use_after_free")
            ELSE IF S.blocks[cb].m_ref_count = 1
                 THEN LET S2 == destroy_wrapper_call(S, cb, raw) IN
                      IF S2.ub # "none" THEN S2
                      ELSE [S2 EXCEPT !.handles[h].m_raw_underlying_ptr = ptr]
                 ELSE LET ncb == FreshBlock(S)
                          S2 == new_control_block(S, ncb, 1, wrapper)
                      IN [S2 EXCEPT !.handles[h].m_control_block_ptr = ncb,
                                    !.handles[h].m_raw_underlying_ptr = ptr]
       ELSE S

\* shared_ptr::reset(ptr) -> shared_ptr_base::reset_base(ptr, default deleter)
reset_base(S, h, ptr, wrapper) ==
    LET raw == S.handles[h].m_raw_underlying_ptr
        cb == S.handles[h].m_control_block_ptr
    IN IF raw # ptr
       THEN IF cb = Null THEN Stop(S, "null_control_block")
            ELSE IF S.blocks[cb].state # "live" THEN Stop(S, "use_after_free")
            ELSE LET S1 == pre_decrement(S, cb) IN
                 IF S1.blocks[cb].m_ref_count = 0
                 THEN LET S2 == destroy_wrapper_call(S1, cb, raw) IN
                      IF S2.ub # "none" THEN S2
                      ELSE [S2 EXCEPT !.blocks[cb].m_ref_count = 1,
                                      !.handles[h].m_raw_underlying_ptr = ptr]
                 ELSE LET ncb == FreshBlock(S1)
                          S2 == new_control_block(S1, ncb, 1, wrapper)
                      IN [S2 EXCEPT !.handles[h].m_control_block_ptr = ncb,
                                    !.handles[h].m_raw_underlying_ptr = ptr]
       ELSE S

\* a reset that always hands reset_base the scalar deleter
reset_scalar_deleter(S, h, ptr, isArray) == reset_base(S, h, ptr, "default_delete")

reset(S, h, ptr, isArray) == reset_base(S, h, ptr, DefaultDeleter(isArray))

\* ------------------------------------------------------------ the program
Init ==
    /\ handles = [h \in Slots |-> NoHandle]
    /\ blocks = [c \in BlockIds |-> NoBlock]
    /\ payloads = [p \in PayloadIds |-> NoPayload]
    /\ ub = "none"
    /\ arrayMode \in BOOLEAN
    /\ thrown = "none"
    /\ pc = [t \in Handles |-> "idle"]
    /\ sawZero = [t \in Handles |-> FALSE]
    /\ RestInit

Running == ub = "none"
\* a new handle object takes the first slot that holds none
Dead(h) == ~handles[h].live /\ \A g \in Handles : g < h => handles[g].live
Live(h) == handles[h].live
CanAllocBlock == UnusedBlocks(Cur) # {}
CanAllocPayload == UnusedPayloads(Cur) # {}
\* the counter of h's control block can still be raised within the bound
CanCount(h) ==
    IF handles[h].m_control_block_ptr = Null THEN TRUE
    ELSE blocks[handles[h].m_control_block_ptr].m_ref_count < MaxRefCount

\* dev::shared_ptr<T> h;  or  dev::shared_ptr<T> h(nullptr);
DefaultCtor(h) ==
    /\ Running /\ Dead(h) /\ CanAllocBlock
    /\ Commit(ctor_nullptr(Cur, h, arrayMode))

\* dev::shared_ptr<T> h(new T(...));
RawCtor(h) ==
    /\ Running /\ Dead(h) /\ CanAllocBlock /\ CanAllocPayload
    /\ LET p == FreshPayload(Cur) IN
       Commit(ctor_raw(new_payload(Cur, p), h, p, arrayMode))

\* dev::shared_ptr<T> h(static_cast<T*>(nullptr));
RawCtorNull(h) ==
    /\ Running /\ Dead(h) /\ CanAllocBlock
    /\ Commit(ctor_raw(Cur, h, Null, arrayMode))

\* dev::shared_ptr<T> h(new T(...), deleter);
DeleterCtor(h) ==
    /\ Running /\ Dead(h) /\ CanAllocBlock /\ CanAllocPayload
    /\ LET p == FreshPayload(Cur) IN
       Commit(ctor_deleter(new_payload(Cur, p), h, p))

\* auto h = dev::make_shared<T>(args...);  (single-object version only)
MakeSharedWith(h, args) ==
    /\ Running /\ Dead(h) /\ CanAllocBlock /\ CanAllocPayload
    /\ ~arrayMode
    /\ Commit(make_shared(Cur, h, FreshPayload(Cur), args))

MakeShared(h) == \E args \in ArgLists : MakeSharedWith(h, args)

\* dev::shared_ptr<T> h(other);
CopyCtor(h, other) ==
    /\ Running /\ Dead(h) /\ Live(other) /\ CanCount(other)
    /\ Commit(ctor_copy(Cur, h, other))

\* dev::shared_ptr<T> h(std::move(other));
MoveCtor(h, other) ==
    /\ Running /\ Dead(h) /\ Live(other)
    /\ Commit(ctor_move(Cur, h, other))

\* h = other;
CopyAssign(h, other) ==
    /\ Running /\ Live(h) /\ Live(other) /\ CanCount(other)
    /\ Commit(assign_copy(Cur, h, other))

\* h = std::move(other);
MoveAssign(h, other) ==
    /\ Running /\ Live(h) /\ Live(other)
    /\ Commit(assign_move(Cur, h, other))

\* swap(a, b);
Swap(a, b) ==
    /\ Running /\ Live(a) /\ Live(b) /\ a # b
    /\ handles[a] # handles[b]
    /\ Commit(swap(Cur, a, b))

\* h.reset(new T(...));
ResetFresh(h) ==
    /\ Running /\ Live(h) /\ CanAllocBlock /\ CanAllocPayload
    /\ LET p == FreshPayload(Cur) IN
       Commit(reset(new_payload(Cur, p), h, p, arrayMode))

\* h.reset(nullptr);  (on a handle that holds a payload pointer)
ResetNull(h) ==
    /\ Running /\ Live(h) /\ CanAllocBlock
    /\ handles[h].m_raw_underlying_ptr # Null
    /\ Commit(reset(Cur, h, Null, arrayMode))

\* h.reset(h.get());
ResetSelf(h) ==
    /\ Running /\ Live(h)
    /\ Commit(reset(Cur, h, get(Cur, h), arrayMode))

\* h goes out of scope
Destroy(h) ==
    /\ Running /\ Live(h)
    /\ Commit(dtor(Cur, h))

Next ==
    \/ \E h \in Handles : DefaultCtor(h)
    \/ \E h \in Handles : RawCtor(h)
    \/ \E h \in Handles : RawCtorNull(h)
    \/ \E h \in Handles : DeleterCtor(h)
    \/ \E h \in Handles : MakeShared(h)
    \/ \E h, other \in Handles : CopyCtor(h, other)
    \/ \E h, other \in Handles : MoveCtor(h, other)
    \/ \E h, other \in Handles : CopyAssign(h, other)
    \/ \E h, other \in Handles : MoveAssign(h, other)
    \/ \E a, b \in Handles : Swap(a, b)
    \/ \E h \in Handles : ResetFresh(h)
    \/ \E h \in Handles : ResetNull(h)
    \/ \E h \in Handles : ResetSelf(h)
    \/ \E h \in Handles : Destroy(h)

Spec == Init /\ [][Next]_vars

TypeOK ==
    /\ ub \in {"none", "null_control_block", "use_after_free", "double_free",
               "delete_of_embedded_object"}
    /\ \A h \in Slots : handles[h].m_control_block_ptr \in 0..MaxCB
    /\ ub = "none" => ~handles[Tmp].live
    /\ thrown \in {"none", "bad_alloc", "std_exception", "payload_exception"}

\* The operations that take, share, transfer and give up ownership of a
\* payload: every handle descends from one built by an owning constructor
\* (make_shared with at least one argument is one of them).
NextOwn ==
    \/ \E h \in Handles : RawCtor(h)
    \/ \E h \in Handles : DeleterCtor(h)
    \/ \E h \in Handles : \E args \in ArgLists \ {<<>>} : MakeSharedWith(h, args)
    \/ \E h, other \in Handles : CopyCtor(h, other)
    \/ \E h, other \in Handles : MoveCtor(h, other)
    \/ \E h, other \in Handles : CopyAssign(h, other)
    \/ \E h, other \in Handles : MoveAssign(h, other)
    \/ \E a, b \in Handles : Swap(a, b)
    \/ \E h \in Handles : Destroy(h)

SpecOwn == Init /\ [][NextOwn]_vars

\* throw ex; where ex is the std::exception& of the catch clause: the
\* exception object is copy-initialised from the static type of ex, so what
\* is thrown is a std::exception whatever class the caught object had.
throw_ex(caught) == "std_exception"

\* An operation that ends with an exception: the state it leaves behind and
\* the exception the caller sees (none if the program did something
\* undefined before the exception got there).
CommitThrow(S, exception) ==
    /\ handles' = S.handles
    /\ blocks' = S.blocks
    /\ payloads' = S.payloads
    /\ ub' = S.ub
    /\ thrown' = IF S.ub = "none" THEN exception ELSE "none"
    /\ UNCHANGED <<arrayMode, pc, sawZero, restVars>>

\* dev::shared_ptr<T> h(new T(...));  the control block cannot be allocated.
\* catch (std::exception& ex) { ...; throw ex; } throws a copy of the
\* std::exception base of the std::bad_alloc it caught.
RawCtorBadAlloc(h) ==
    /\ Running /\ Dead(h) /\ CanAllocPayload
    /\ LET p == FreshPayload(Cur) IN
       CommitThrow(ctor_raw_bad_alloc(new_payload(Cur, p), h, p, arrayMode),
                   throw_ex("bad_alloc"))

\* dev::shared_ptr<T> h(new T(...), deleter);  the control block cannot be
\* allocated
DeleterCtorBadAlloc(h) ==
    /\ Running /\ Dead(h) /\ CanAllocPayload
    /\ LET p == FreshPayload(Cur) IN
       CommitThrow(ctor_deleter_bad_alloc(new_payload(Cur, p), h, p),
                   throw_ex("bad_alloc"))

\* auto h = dev::make_shared<T>(args...);  T's constructor throws
MakeSharedThrows(h, args) ==
    /\ Running /\ Dead(h) /\ CanAllocBlock /\ CanAllocPayload
    /\ ~arrayMode /\ args # <<>>
    /\ CommitThrow(ctor_args_throws(Cur, h, FreshPayload(Cur), args), "payload_exception")

NextFail ==
    \/ NextOwn
    \/ \E h \in Handles : RawCtorBadAlloc(h)
    \/ \E h \in Handles : DeleterCtorBadAlloc(h)
    \/ \E h \in Handles : \E args \in ArgLists : MakeSharedThrows(h, args)

SpecFail == Init /\ [][NextFail]_vars

\* ---------------------------------------------------------- observations
\* the objects obtained from operator new that are not yet freed: control
\* blocks, the destroyer each destroy_wrapper holds, payloads made by new T
HeapObjects(S) ==
    {<<"control_block", c>> : c \in {c \in BlockIds : S.blocks[c].state = "live"}}
    \cup {<<"destroyer", c>> : c \in {c \in BlockIds : S.blocks[c].destroyer}}
    \cup {<<"payload", p>> : p \in {p \in PayloadIds :
               S.payloads[p].state = "alive" /\ S.payloads[p].inBlock = Null}}

CurNext == [handles |-> handles', blocks |-> blocks', payloads |-> payloads', ub |-> ub']

\* the live handles whose payload pointer is p
Owners(p) == {h \in Handles : handles[h].live /\ handles[h].m_raw_underlying_ptr = p}

\* the live handles whose control-block pointer is cb
Sharers(cb) == {h \in Handles : handles[h].live /\ handles[h].m_control_block_ptr = cb}

\* ------------------------------------------------------------------- C1
\* C1: over copy/move construction and assignment, swap and destruction of
\* handles that descend from an owning constructor, a payload's destruction
\* strategy runs at most once, never while a live handle still owns the
\* payload, and it has run (exactly once) as soon as no live handle owns it.
C1_DestroyedOnceByLastOwner ==
    /\ ub = "none"
    /\ \A p \in PayloadIds :
        /\ payloads[p].destroyed <= 1
        /\ (payloads[p].state = "destroyed") = (payloads[p].destroyed = 1)
        /\ Owners(p) # {} => payloads[p].state = "alive"
        /\ payloads[p].state = "alive" => Owners(p) # {}

\* one payload was destroyed once after its owners went away, while another
\* one is still shared by two handles
C1_Witness ==
    \E p, q \in PayloadIds :
        /\ payloads[p].destroyed = 1 /\ Owners(p) = {}
        /\ payloads[q].state = "alive" /\ Cardinality(Owners(q)) = 2

\* ------------------------------------------------------------------- C2
\* C2: for every live handle that owns a payload, use_count() is the number
\* of live handles that share its control block.
C2_UseCountIsNumberOfSharers ==
    \A h \in Handles :
        (handles[h].live /\ get(Cur, h) # Null) =>
            use_count(Cur, h) = Cardinality(Sharers(handles[h].m_control_block_ptr))

\* a payload with two co-owners next to a handle that was emptied by a move
C2_Witness ==
    \E h, g \in Handles :
        /\ handles[h].live /\ get(Cur, h) # Null /\ use_count(Cur, h) = 2
        /\ handles[g].live /\ get(Cur, g) = Null

\* ------------------------------------------------------------------- C5
\* b = std::move(a) as a construction of b or as an assignment to b (a and b
\* distinct objects)
MoveStep(b, a) == a # b /\ (MoveCtor(b, a) \/ MoveAssign(b, a))

\* b co-owned a's control block before the move-assignment
SharedBefore(b, a) ==
    /\ handles[b].live
    /\ handles[b].m_control_block_ptr = handles[a].m_control_block_ptr
    /\ handles[b].m_raw_underlying_ptr # Null

\* C5 as stated: after b = std::move(a), a is empty with use_count() 0, b
\* holds a's former payload pointer and the counter of the transferred
\* control block has the value it had before.
C5_MoveKeepsCount ==
    [][\A a, b \in Handles : MoveStep(b, a) =>
        /\ get(CurNext, a) = Null /\ use_count(CurNext, a) = 0
        /\ get(CurNext, b) = get(Cur, a)
        /\ handles'[b].m_control_block_ptr = handles[a].m_control_block_ptr
        /\ use_count(CurNext, b) = use_count(Cur, a)]_vars

\* C5 (amended): after b = std::move(a), a is empty with use_count() 0 and b
\* holds a's former payload pointer and control block; the counter of that
\* block is unchanged, except that it is one lower when b was itself a
\* co-owner of that block before the assignment (b's former share is released).
C5_MoveTransfersOwnership ==
    [][\A a, b \in Handles : MoveStep(b, a) =>
        /\ get(CurNext, a) = Null /\ use_count(CurNext, a) = 0
        /\ get(CurNext, b) = get(Cur, a)
        /\ handles'[b].m_control_block_ptr = handles[a].m_control_block_ptr
        /\ use_count(CurNext, b) =
             use_count(Cur, a) - (IF SharedBefore(b, a) THEN 1 ELSE 0)]_vars

\* a moved-from handle (both pointers null) next to a sole owner
C5_Witness ==
    \E a, b \in Handles :
        /\ handles[a].live /\ get(Cur, a) = Null /\ handles[a].m_control_block_ptr = Null
        /\ handles[b].live /\ get(Cur, b) # Null /\ use_count(Cur, b) = 1

\* ------------------------------------------------------------------- C6
\* a, b and c are three handles on one live payload whose counter is 3
ThreeShare(a, b, c) ==
    /\ a # b /\ b # c /\ a # c
    /\ handles[a].live /\ handles[a] = handles[b] /\ handles[b] = handles[c]
    /\ get(Cur, a) # Null /\ use_count(Cur, a) = 3
    /\ payloads[get(Cur, a)].state = "alive"

\* C6: with a, b, c sharing one payload (count 3), a.reset(p) for a fresh p
\* makes a the sole owner of p (use_count 1), leaves b and c with use_count 2
\* and leaves the original payload alive and untouched; in both the scalar
\* and the array specialization.
C6_ResetUnderSharedOwnership ==
    [][\A a, b, c \in Handles : (ThreeShare(a, b, c) /\ ResetFresh(a)) =>
        /\ ub' = "none"
        /\ get(CurNext, a) = FreshPayload(Cur) /\ use_count(CurNext, a) = 1
        /\ payloads'[FreshPayload(Cur)].state = "alive"
        /\ handles'[b] = handles[b] /\ handles'[c] = handles[c]
        /\ use_count(CurNext, b) = 2 /\ use_count(CurNext, c) = 2
        /\ payloads'[get(Cur, b)] = payloads[get(Cur, b)]]_vars

\* after the reset: one handle alone on its payload, the two others still
\* sharing the first payload, both payloads alive
C6_Witness ==
    \E a, b, c \in Handles :
        /\ a # b /\ b # c /\ a # c
        /\ handles[a].live /\ get(Cur, a) # Null /\ use_count(Cur, a) = 1
        /\ handles[b].live /\ handles[b] = handles[c]
        /\ get(Cur, b) \notin {Null, get(Cur, a)} /\ use_count(Cur, b) = 2
        /\ handles[a].m_control_block_ptr # handles[b].m_control_block_ptr
        /\ payloads[get(Cur, a)].state = "alive" /\ payloads[get(Cur, b)].state = "alive"

\* ------------------------------------------------------------------- C7
\* h.reset(ptr) with ptr different from the pointer h holds
ResetOther(h) == ResetFresh(h) \/ ResetNull(h)

\* the pointer such a reset is given
ResetArg(h) == IF ResetNull(h) THEN Null ELSE FreshPayload(Cur)

\* C7: reset(ptr) with ptr different from the held pointer gives up exactly
\* one share of the old control block: the old payload is destroyed exactly
\* once when h was its last owner, otherwise the old block stays alive with
\* its count one lower; afterwards h owns ptr with use_count() 1 if ptr is
\* non-null.
C7_ResetGivesUpOneShare ==
    [][\A h \in Handles : ResetOther(h) =>
        LET cb == handles[h].m_control_block_ptr
            raw == get(Cur, h)
        IN /\ ub' = "none"
           /\ IF Sharers(cb) = {h}
              THEN raw # Null => /\ payloads[raw].destroyed = 0
                                 /\ payloads'[raw].destroyed = 1
                                 /\ payloads'[raw].state = "destroyed"
              ELSE /\ blocks'[cb].state = "live"
                   /\ blocks'[cb].m_ref_count = blocks[cb].m_ref_count - 1
                   /\ raw # Null => payloads'[raw] = payloads[raw]
           /\ ResetArg(h) # Null =>
                /\ get(CurNext, h) = ResetArg(h)
                /\ use_count(CurNext, h) = 1]_vars

\* ------------------------------------------------------------------- C8
\* C8: h.reset(h.get()) changes nothing: no payload is destroyed, no counter
\* changes, no control block is allocated, get() and use_count() stay.
C8_SelfResetIsNoOp ==
    \A h \in Handles : handles[h].live => reset(Cur, h, get(Cur, h), arrayMode) = Cur

\* a sole owner of a live payload, on which reset(get()) leaves the state as
\* it is
C8_Witness ==
    \E h \in Handles :
        /\ handles[h].live /\ get(Cur, h) # Null /\ use_count(Cur, h) = 1
        /\ payloads[get(Cur, h)].state = "alive"
        /\ reset(Cur, h, get(Cur, h), arrayMode) = Cur

\* ------------------------------------------------------------------- C9
\* C9: use_count() is 0 for every empty handle (get() == nullptr).
C9_EmptyHandleCountsZero ==
    \A h \in Handles :
        (handles[h].live /\ get(Cur, h) = Null) => use_count(Cur, h) = 0

\* ------------------------------------------------------------------ C10
\* C10: in every handle the payload pointer is non-null iff the control-block
\* pointer is non-null.
C10_BothPointersOrNone ==
    \A h \in Handles :
        handles[h].live =>
            ((handles[h].m_raw_underlying_ptr # Null) = (handles[h].m_control_block_ptr # Null))

\* ------------------------------------------------------ concurrent owners
\* The test MultithreadedConstructionAndDestructionTest: the main thread
\* (thread Main) owns the handle ptr; every other thread copy-constructs its
\* own handle from ptr, reads the payload and lets its copy go out of scope.
\* A thread is named by the slot of the handle it owns.  Each step below is
\* one access to shared memory; the two accesses to m_ref_count are single
\* atomic read-modify-write operations.
Main == 1
Workers == Handles \ {Main}

\* the first payload and control block the program allocates
FirstPayload == 1
FirstBlock == 1

\* dev::shared_ptr ptr{ new int(42) };  or  auto ptr = dev::make_shared<int>(42);
InitConc ==
    /\ arrayMode \in BOOLEAN
    /\ \E storage \in BOOLEAN :
        LET S0 == [handles |-> [h \in Slots |-> NoHandle],
                   blocks |-> [c \in BlockIds |-> NoBlock],
                   payloads |-> [p \in PayloadIds |-> NoPayload],
                   ub |-> "none"]
            S1 == IF storage
                  THEN make_shared(S0, Main, FirstPayload, <<1>>)
                  ELSE ctor_raw(new_payload(S0, FirstPayload), Main, FirstPayload, arrayMode)
        IN /\ storage => ~arrayMode
           /\ handles = S1.handles
           /\ blocks = S1.blocks
           /\ payloads = S1.payloads
           /\ ub = S1.ub
    /\ thrown = "none"
    /\ pc = [t \in Handles |-> IF t = Main THEN "hold" ELSE "start"]
    /\ sawZero = [t \in Handles |-> FALSE]
    /\ RestInit

CommitT(S, t, label) ==
    /\ handles' = S.handles
    /\ blocks' = S.blocks
    /\ payloads' = S.payloads
    /\ ub' = S.ub
    /\ pc' = [pc EXCEPT ![t] = label]
    /\ UNCHANGED <<arrayMode, thrown, restVars>>

\* copy constructor, member initialisers: the two pointers of ptr are read
T_CopyPointers(t) ==
    /\ Running /\ t \in Workers /\ pc[t] = "start" /\ pc[Main] = "hold"
    /\ CommitT([Cur EXCEPT !.handles[t] =
                    Handle(handles[Main].m_raw_underlying_ptr,
                           handles[Main].m_control_block_ptr)], t, "copied")
    /\ UNCHANGED sawZero

\* copy constructor, body: m_control_block_ptr->increment()
T_Increment(t) ==
    /\ Running /\ pc[t] = "copied"
    /\ CommitT(IF handles[t].m_control_block_ptr # Null
               THEN increment(Cur, handles[t].m_control_block_ptr)
               ELSE Cur, t, "owner")
    /\ UNCHANGED sawZero

\* the thread reads the payload through its handle
T_ReadPayload(t) ==
    /\ Running /\ pc[t] = "owner"
    /\ CommitT(IF payloads[get(Cur, t)].state = "alive" THEN Cur
               ELSE Stop(Cur, "use_after_free"), t, "used")
    /\ UNCHANGED sawZero

\* destructor -> release_shared: --m_ref_count == 0.  The main thread may
\* let ptr go out of scope once no thread is in the middle of copying it.
T_Decrement(t) ==
    /\ Running
    /\ \/ t \in Workers /\ pc[t] = "used"
       \/ t = Main /\ pc[t] = "hold" /\ \A w \in Workers : pc[w] # "copied"
    /\ LET cb == handles[t].m_control_block_ptr IN
       IF blocks[cb].state # "live"
       THEN CommitT(Stop(Cur, "use_after_free"), t, "decremented") /\ UNCHANGED sawZero
       ELSE LET S1 == pre_decrement(Cur, cb) IN
            /\ CommitT(S1, t, "decremented")
            /\ sawZero' = [sawZero EXCEPT ![t] = (S1.blocks[cb].m_ref_count = 0)]

\* release_shared of control_block: m_destroy_wrapper(raw_underlying_ptr)
T_DestroyPayload(t) ==
    /\ Running /\ pc[t] = "decremented" /\ sawZero[t]
    /\ LET cb == handles[t].m_control_block_ptr IN
       /\ IF blocks[cb].state # "live"
          THEN CommitT(Stop(Cur, "use_after_free"), t, "payload_destroyed")
          ELSE /\ ~blocks[cb].storage
               /\ CommitT(destroy_wrapper_call(Cur, cb, get(Cur, t)), t, "payload_destroyed")
    /\ UNCHANGED sawZero

\* release_shared: delete this
T_DeleteBlock(t) ==
    /\ Running /\ sawZero[t]
    /\ LET cb == handles[t].m_control_block_ptr IN
       /\ \/ pc[t] = "payload_destroyed"
          \/ pc[t] = "decremented" /\ blocks[cb].state = "live" /\ blocks[cb].storage
       /\ CommitT(IF blocks[cb].state # "live" THEN Stop(Cur, "double_free")
                  ELSE delete_this(Cur, cb), t, "released")
    /\ UNCHANGED sawZero

\* destructor: m_raw_underlying_ptr = nullptr, the handle is gone
T_Finish(t) ==
    /\ Running
    /\ \/ pc[t] = "decremented" /\ ~sawZero[t]
       \/ pc[t] = "released"
    /\ CommitT([Cur EXCEPT !.handles[t] = NoHandle], t, "done")
    /\ UNCHANGED sawZero

NextConc ==
    \/ \E t \in Handles : T_CopyPointers(t)
    \/ \E t \in Handles : T_Increment(t)
    \/ \E t \in Handles : T_ReadPayload(t)
    \/ \E t \in Handles : T_Decrement(t)
    \/ \E t \in Handles : T_DestroyPayload(t)
    \/ \E t \in Handles : T_DeleteBlock(t)
    \/ \E t \in Handles : T_Finish(t)

SpecConc == InitConc /\ [][NextConc]_vars

\* the threads that hold a share: constructed, destructor not yet at its
\* decrement
LiveOwners == {t \in Handles : pc[t] \in {"hold", "owner", "used"}}

\* ------------------------------------------------------------------- C3
\* C3: while the original handle is alive the payload is not destroyed and
\* the control block is not freed; the counter is never lower than the
\* number of live owners; and once every copying thread has finished, the
\* original handle has use_count() 1 and the payload is as it was.
C3_ConcurrentCopyDestroy ==
    /\ blocks[FirstBlock].state = "live" =>
           blocks[FirstBlock].m_ref_count >= Cardinality(LiveOwners)
    /\ pc[Main] = "hold" =>
        /\ ub = "none"
        /\ blocks[FirstBlock].state = "live"
        /\ payloads[FirstPayload].state = "alive" /\ payloads[FirstPayload].destroyed = 0
        /\ get(Cur, Main) = FirstPayload
        /\ (\A w \in Workers : pc[w] = "done") => use_count(Cur, Main) = 1

\* every thread has made, used and dropped its copy; the original is intact
C3_Witness ==
    /\ pc[Main] = "hold" /\ \A w \in Workers : pc[w] = "done"
    /\ use_count(Cur, Main) = 1 /\ payloads[FirstPayload].state = "alive"

\* ------------------------------------------------------------------- C4
\* every handle that shared the block has finished its destructor
AllReleased == \A t \in Handles : pc[t] \in {"done", "start"}

\* C4: of the threads that destroy handles sharing one control block, at
\* most one sees the counter reach zero; only that thread destroys the
\* payload and frees the block, each exactly once, nothing touches the block
\* after it is freed, and when all are done the payload and the block are gone.
C4_ExactlyOneReleases ==
    /\ ub = "none"
    /\ Cardinality({t \in Handles : sawZero[t]}) <= 1
    /\ payloads[FirstPayload].destroyed <= 1
    /\ (payloads[FirstPayload].destroyed = 1 \/ blocks[FirstBlock].state = "freed") =>
           \E t \in Handles : sawZero[t] /\ pc[t] \in {"payload_destroyed", "released", "done"}
    /\ blocks[FirstBlock].state = "freed" => LiveOwners = {}
    /\ (AllReleased /\ pc[Main] = "done") =>
           /\ Cardinality({t \in Handles : sawZero[t]}) = 1
           /\ payloads[FirstPayload].destroyed = 1
           /\ blocks[FirstBlock].state = "freed"

\* all handles were destroyed, a thread other than the main one did the release
C4_Witness ==
    /\ \A t \in Handles : pc[t] = "done"
    /\ \E w \in Workers : sawZero[w]
    /\ payloads[FirstPayload].destroyed = 1 /\ blocks[FirstBlock].state = "freed"

\* ------------------------------------------------------------------ C11
OwnersNext(p) == {h \in Handles : handles'[h].live /\ handles'[h].m_raw_underlying_ptr = p}

\* p is held by a handle whose control block stores the caller's deleter
CustomOwned(p) ==
    \E h \in Owners(p) :
        /\ handles[h].m_control_block_ptr # Null
        /\ blocks[handles[h].m_control_block_ptr].deleter = "custom"

C12_MakeSharedBuildsEmbeddedPayload ==
    [][\A h \in Handles : \A args \in ArgLists : MakeSharedWith(h, args) =>
          /\ handles'[h].live
          /\ get(CurNext, h) # Null
          /\ payloads'[get(CurNext, h)].state = "alive"
          /\ payloads'[get(CurNext, h)].value = args
          /\ handles'[h].m_control_block_ptr # Null
          /\ blocks'[handles'[h].m_control_block_ptr].storage
          /\ payloads'[get(CurNext, h)].inBlock = handles'[h].m_control_block_ptr
          /\ use_count(CurNext, h) = 1]_vars

\* ------------------------------------------------------------------ C13
\* C13: one make_shared call performs exactly one heap allocation in
\* total, and that allocation holds both the control block and the payload.
C13_MakeSharedAllocatesOnce ==
    [][\A h \in Handles : \A args \in ArgLists \ {<<>>} : MakeSharedWith(h, args) =>
          LET allocated == HeapObjects(CurNext) \ HeapObjects(Cur)
              cb == handles'[h].m_control_block_ptr
          IN /\ allocated = {<<"control_block", cb>>}
             /\ blocks'[cb].storage
             /\ payloads'[get(CurNext, h)].inBlock = cb]_vars

\* ------------------------------------------------------------------ C14
\* C14: when the payload's constructor throws inside make_shared, all that
\* the call allocated is freed again, no payload and no control block
\* remain, no handle is returned, and the exception reaches the caller.
C14_MakeSharedUnwindsOnThrow ==
    [][\A h \in Handles : \A args \in ArgLists : MakeSharedThrows(h, args) =>
          /\ ub' = "none"
          /\ HeapObjects(CurNext) = HeapObjects(Cur)
          /\ \A c \in BlockIds : blocks[c].state # "live" => blocks'[c].state # "live"
          /\ payloads' = payloads
          /\ handles' = handles /\ ~handles'[h].live
          /\ thrown' = "payload_exception"]_vars

\* the constructor's exception reached the caller, the block's memory is freed
C14_Witness ==
    /\ thrown = "payload_exception" /\ ub = "none"
    /\ \E c \in BlockIds : blocks[c].state = "freed"
    /\ \A c \in BlockIds : Sharers(c) = {} => blocks[c].state # "live"

\* ------------------------------------------------------------------ C15
\* C15: when the control block cannot be allocated in shared_ptr(T*)
\* (scalar or array form), the pointee is destroyed exactly once by default
\* destruction, nothing else is released or accessed, and the failure
\* reaches the caller.
C15_RawCtorFailureDeletesPointee ==
    [][\A h \in Handles : RawCtorBadAlloc(h) =>
          LET p == FreshPayload(Cur) IN
          /\ ub' = "none"
          /\ payloads'[p].state = "destroyed" /\ payloads'[p].destroyed = 1
          /\ payloads'[p].by = DefaultDeleter(arrayMode)
          /\ \A q \in PayloadIds \ {p} : payloads'[q] = payloads[q]
          /\ blocks' = blocks
          /\ handles' = handles
          /\ thrown' # "none"]_vars

\* ------------------------------------------------------------------ C16
\* C16: when the control block cannot be allocated in the constructor that
\* takes a raw pointer and a custom deleter, the custom deleter is invoked
\* exactly once on the pointee, nothing else is touched, and the failure
\* reaches the caller.
C16_DeleterCtorFailureRunsDeleter ==
    [][\A h \in Handles : DeleterCtorBadAlloc(h) =>
          LET p == FreshPayload(Cur) IN
          /\ ub' = "none"
          /\ payloads'[p].state = "destroyed" /\ payloads'[p].destroyed = 1
          /\ payloads'[p].by = "custom"
          /\ \A q \in PayloadIds \ {p} : payloads'[q] = payloads[q]
          /\ blocks' = blocks
          /\ handles' = handles
          /\ thrown' # "none"]_vars

\* the allocation failure reached the caller after the custom deleter ran
C16_Witness ==
    /\ thrown = "std_exception" /\ ub = "none"
    /\ \E p \in PayloadIds :
          /\ payloads[p].state = "destroyed" /\ payloads[p].destroyed = 1
          /\ payloads[p].by = "custom"

\* ------------------------------------------------------------------ C17
\* h is one of the counted owners of a payload: its control block is live,
\* counts exactly the handles that point to it, and all of them (and no
\* others) hold the payload h holds
Owns(h) ==
    /\ handles[h].live
    /\ handles[h].m_raw_underlying_ptr # Null
    /\ handles[h].m_control_block_ptr # Null
    /\ blocks[handles[h].m_control_block_ptr].state = "live"
    /\ payloads[handles[h].m_raw_underlying_ptr].state = "alive"
    /\ Sharers(handles[h].m_control_block_ptr) = Owners(handles[h].m_raw_underlying_ptr)
    /\ use_count(Cur, h) = Cardinality(Sharers(handles[h].m_control_block_ptr))

\* C17: after a = b, where a and b own different payloads, a.get() equals
\* b.get(), both report the count b had before plus one, and a's former
\* control block has lost exactly one owner: its payload is destroyed
\* (exactly once, the block with it) if a was the last owner and is left
\* alive under a count one lower otherwise.
C17_CopyAssignSharesAndReleases ==
    [][\A a, b \in Handles :
          (CopyAssign(a, b) /\ Owns(a) /\ Owns(b) /\ get(Cur, a) # get(Cur, b)) =>
          LET p == get(Cur, a)
              cb == handles[a].m_control_block_ptr
          IN /\ ub' = "none"
             /\ get(CurNext, a) = get(Cur, b) /\ get(CurNext, b) = get(Cur, b)
             /\ use_count(CurNext, a) = use_count(Cur, b) + 1
             /\ use_count(CurNext, b) = use_count(Cur, b) + 1
             /\ IF use_count(Cur, a) = 1
                THEN /\ payloads'[p].state = "destroyed" /\ payloads'[p].destroyed = 1
                     /\ blocks'[cb].state = "freed"
                ELSE /\ payloads'[p] = payloads[p]
                     /\ blocks'[cb].state = "live"
                     /\ blocks'[cb].m_ref_count = use_count(Cur, a) - 1]_vars

\* a was assigned from b while another handle kept a's former payload alive:
\* two payloads alive, one with two owners and one with one
C17_Witness ==
    \E a, b, c \in Handles :
        /\ a # b /\ Owns(a) /\ Owns(b) /\ Owns(c)
        /\ get(Cur, a) = get(Cur, b) /\ get(Cur, c) # get(Cur, a)
        /\ use_count(Cur, a) = 2 /\ use_count(Cur, c) = 1

\* ------------------------------------------------------------------ C18
\* C18: a = b, where a and b are counted owners that already share one
\* control block (a = a included), changes nothing: the payload stays
\* alive, get() and use_count() of both are what they were, and so is
\* everything else.
C18_AssignWithinSharersIsNoOp ==
    \A a, b \in Handles :
        (Running /\ Owns(a) /\ Owns(b)
           /\ handles[a].m_control_block_ptr = handles[b].m_control_block_ptr) =>
        LET S == assign_copy(Cur, a, b) IN
        /\ S.ub = "none"
        /\ S.payloads[get(Cur, a)].state = "alive"
        /\ get(S, a) = get(Cur, a) /\ get(S, b) = get(Cur, b)
        /\ use_count(S, a) = use_count(Cur, a) /\ use_count(S, b) = use_count(Cur, b)
        /\ S = Cur

\* two handles share one control block (a = b applies), and a sole owner
\* exists (a = a on the last owner applies)
C18_Witness ==
    /\ Running
    /\ \E a, b \in Handles :
          /\ a # b /\ Owns(a) /\ Owns(b)
          /\ handles[a].m_control_block_ptr = handles[b].m_control_block_ptr
          /\ use_count(Cur, a) = 2
    /\ \E c \in Handles : Owns(c) /\ use_count(Cur, c) = 1

\* ------------------------------------------------------------------ C19
\* C19: in b = std::move(a) nothing is released until b holds a's former
\* payload and control block; the resource b held before is then released
\* exactly once (its payload and block go if b was the last owner, its
\* count drops by one otherwise).  In b = std::move(b) nothing is released
\* and b keeps what it had.
C19_MoveAssignReleasesAfterTakeover ==
    \A a, b \in Handles :
        (Running /\ Live(a) /\ Owns(b)) =>
        LET steps == assign_move_steps(Cur, b, a)
            p == get(Cur, b)
            cb == handles[b].m_control_block_ptr
            n == use_count(Cur, b)
        IN IF a = b
           THEN /\ \A i \in 1..3 : steps[i].payloads = payloads /\ steps[i].blocks = blocks
                /\ steps[3] = Cur
           ELSE /\ \A i \in 1..2 : steps[i].payloads = payloads /\ steps[i].blocks = blocks
                /\ get(steps[2], b) = get(Cur, a)
                /\ steps[2].handles[b].m_control_block_ptr = handles[a].m_control_block_ptr
                /\ steps[3].ub = "none"
                /\ steps[3].handles[b] = steps[2].handles[b]
                /\ IF n = 1
                   THEN /\ steps[3].payloads[p].state = "destroyed"
                        /\ steps[3].payloads[p].destroyed = 1
                        /\ steps[3].blocks[cb].state = "freed"
                   ELSE /\ steps[3].payloads[p] = payloads[p]
                        /\ steps[3].blocks[cb].state = "live"
                        /\ steps[3].blocks[cb].m_ref_count = n - 1

\* b is the last owner of one payload and a owns another: b = std::move(a)
\* has to release b's payload, b = std::move(b) must not
C19_Witness ==
    /\ Running
    /\ \E a, b \in Handles :
          /\ a # b /\ Owns(a) /\ Owns(b) /\ get(Cur, a) # get(Cur, b)
          /\ use_count(Cur, b) = 1

\* ------------------------------------------------------------------ C20
SharersNext(cb) == {h \in Handles : handles'[h].live /\ handles'[h].m_control_block_ptr = cb}

\* the step ran the deleter of block cb: a payload held through cb was destroyed
DeleterRan(cb) ==
    \E h \in Sharers(cb) :
        /\ get(Cur, h) # Null
        /\ payloads'[get(Cur, h)].destroyed > payloads[get(Cur, h)].destroyed

\* C20: every control block goes LIVE (count >= 1) -> RELEASED: it is
\* created with count 1, its count is at least 1 as long as a handle
\* points to it, a block whose count has reached zero (its deleter ran) is
\* released, and a released block is never counted on or used again.
C20_BlockLifecycle ==
    [][Running =>
       \A c \in BlockIds :
          /\ (blocks[c].state = "unused" /\ blocks'[c].state = "live") =>
                 blocks'[c].m_ref_count = 1
          /\ (blocks'[c].state = "live" /\ SharersNext(c) # {}) =>
                 blocks'[c].m_ref_count >= 1
          /\ (blocks[c].state = "live" /\ DeleterRan(c)) => blocks'[c].state = "freed"
          /\ blocks[c].state = "freed" => blocks'[c] = blocks[c]
          /\ blocks'[c].state = "freed" => SharersNext(c) = {}
          /\ ub' \notin {"use_after_free", "double_free"}]_vars

\* ------------------------------------------------------------------ C21
\* C21: no operation decrements a control block's counter while it is 0:
\* no counter ever holds a value that stands for a wrapped-around unsigned
\* number (a negative representative, 2^64 - 1 and below).
C21_CounterNeverWraps ==
    \A c \in BlockIds : blocks[c].m_ref_count >= 0

\* ------------------------------------------------------------------ C22
\* C22: a control block keeps the destruction strategy it was built with,
\* and h.reset(p) with p different from the payload h owns puts h on a
\* control block other than the one it held, whose strategy is the default
\* one supplied for p: whether or not h was the sole owner and whether or
\* not h was built with a custom deleter.
C22_ResetReplacesControlBlock ==
    [][/\ \A c \in BlockIds :
              (blocks[c].state = "live" /\ blocks'[c].state = "live") =>
              blocks'[c].deleter = blocks[c].deleter
       /\ \A h \in Handles : (ResetFresh(h) /\ Owns(h)) =>
              /\ ub' = "none"
              /\ get(CurNext, h) = FreshPayload(Cur)
              /\ handles'[h].m_control_block_ptr # handles[h].m_control_block_ptr
              /\ handles'[h].m_control_block_ptr # Null
              /\ blocks'[handles'[h].m_control_block_ptr].state = "live"
              /\ blocks'[handles'[h].m_control_block_ptr].deleter = DefaultDeleter(arrayMode)]_vars

\* ------------------------------------------------------------------ C23
\* the step destroys payload p
Destroyed(p) == payloads'[p].destroyed > payloads[p].destroyed

\* C23: for dev::shared_ptr<T[]> handles, every control block made without
\* a custom deleter (by a constructor or by reset) stores array destruction,
\* and every payload that is released and is not held under a caller's
\* deleter is released by array destruction, never by scalar destruction:
\* when its last owner is destroyed, when its sole owner is reset, and (not
\* at all) when one of several owners is reset.
C23_ArrayPayloadsGetArrayDelete ==
    [][arrayMode =>
       /\ \A c \in BlockIds :
              (blocks[c].state = "unused" /\ blocks'[c].state = "live"
                 /\ ~(\E h \in Handles : DeleterCtor(h))) =>
              blocks'[c].deleter = "default_delete_array"
       /\ \A p \in PayloadIds : Destroyed(p) =>
              /\ payloads'[p].by \in {"default_delete_array", "custom"}
              /\ payloads'[p].by = "custom" => CustomOwned(p)
       /\ \A h \in Handles : (Owns(h) /\ ~CustomOwned(get(Cur, h))) =>
              /\ (Destroy(h) /\ use_count(Cur, h) = 1) =>
                     /\ Destroyed(get(Cur, h))
                     /\ payloads'[get(Cur, h)].by = "default_delete_array"
              /\ (ResetFresh(h) /\ use_count(Cur, h) = 1) =>
                     /\ Destroyed(get(Cur, h))
                     /\ payloads'[get(Cur, h)].by = "default_delete_array"
                     /\ blocks'[handles'[h].m_control_block_ptr].deleter = "default_delete_array"
              /\ (ResetFresh(h) /\ use_count(Cur, h) > 1) =>
                     /\ ~Destroyed(get(Cur, h))
                     /\ blocks'[handles'[h].m_control_block_ptr].deleter = "default_delete_array"
      ]_vars

\* every payload of an array program has been released by delete[]
C23_Witness ==
    /\ arrayMode /\ Running
    /\ \A p \in PayloadIds :
          payloads[p].state = "destroyed" /\ payloads[p].by = "default_delete_array"

\* ------------------------------------------------------------------ C24
\* C24: once every handle has been destroyed, every control block that was
\* allocated has been deallocated and every payload has been destroyed,
\* whatever kind of handle owned it.
C24_NothingLeftWhenAllHandlesGone ==
    (Running /\ \A h \in Handles : ~handles[h].live) =>
        /\ \A c \in BlockIds : blocks[c].state # "live"
        /\ \A p \in PayloadIds : payloads[p].state # "alive"

\* ------------------------------------------------------------------ C25
\* C25: when the allocation of the control block fails inside a
\* constructor, what reaches the caller is the std::bad_alloc that operator
\* new threw, not another exception and not nothing.
C25_AllocationFailureReachesCallerUnchanged ==
    [][\A h \in Handles : (RawCtorBadAlloc(h) \/ DeleterCtorBadAlloc(h)) =>
          thrown' = "bad_alloc"]_vars

\* ============================================================ spsc_queue
\* One producer thread calls try_push, one consumer thread calls try_pop.
\* Every load and store of an index is a step.  The store of an index is a
\* release and the other thread's load of it an acquire, so the access to
\* the slot that precedes the store in program order is visible to whoever
\* reads the new index; an assignment to a slot takes two steps, and a slot
\* read in between yields a torn value.
ptrVars == <<handles, blocks, payloads, ub, arrayMode, thrown, pc, sawZero>>

PtrIdle ==
    /\ handles = [h \in Slots |-> NoHandle]
    /\ blocks = [c \in BlockIds |-> NoBlock]
    /\ payloads = [p \in PayloadIds |-> NoPayload]
    /\ ub = "none"
    /\ arrayMode = FALSE
    /\ thrown = "none"
    /\ pc = [t \in Handles |-> "idle"]
    /\ sawZero = [t \in Handles |-> FALSE]

Torn == -1

\* x & (m_capacity - 1), m_capacity being a power of two
Mask(x) == x % m_capacity

InitSpsc == PtrIdle /\ spsc = SpscInit /\ tq = TqInit /\ ts = TsInit /\ sw = SwInit /\ vec = VecInit /\ up = UpInit /\ mo = MoInit /\ draft = DraftInit

SpscStep(q) == spsc' = q /\ UNCHANGED <<ptrVars, tq, ts, sw, vec, up, mo, draft>>

\* a producer that never finds the queue full
queue_full_never(q) == FALSE

\* try_push: !(next_write_index != m_read_index.load(acquire))
queue_full(q) == q.next_write_index = q.m_read_index

\* a consumer that never finds the queue empty
queue_empty_never(q) == FALSE

\* try_pop: read_index == m_write_index.load(acquire)
queue_empty(q) == q.read_index = q.m_write_index

\* try_push(element): m_write_index.load(relaxed), next_write_index
P_LoadWrite ==
    /\ spsc.ppc = "idle" /\ Len(spsc.pushed) < SpscMaxPush
    /\ SpscStep([spsc EXCEPT !.ppc = "loaded",
                             !.element = Len(spsc.pushed) + 1,
                             !.write_index = spsc.m_write_index,
                             !.next_write_index = Mask(spsc.m_write_index + 1)])

\* try_push: the test against m_read_index; return false when full
P_LoadRead ==
    /\ spsc.ppc = "loaded"
    /\ SpscStep(IF queue_full(spsc)
                THEN [spsc EXCEPT !.ppc = "idle", !.element = 0, !.write_index = 0,
                                  !.next_write_index = 0, !.push_returned = "false"]
                ELSE [spsc EXCEPT !.ppc = "write"])

\* try_push: m_buffer[write_index] = element, first half
P_WriteBegin ==
    /\ spsc.ppc = "write"
    /\ SpscStep([spsc EXCEPT !.ppc = "writing", !.m_buffer[spsc.write_index] = Torn])

\* try_push: m_buffer[write_index] = element, second half
P_WriteEnd ==
    /\ spsc.ppc = "writing"
    /\ SpscStep([spsc EXCEPT !.ppc = "written",
                             !.m_buffer[spsc.write_index] = spsc.element])

\* try_push: m_write_index.store(next_write_index, release); return true
P_StoreWrite ==
    /\ spsc.ppc = "written"
    /\ SpscStep([spsc EXCEPT !.ppc = "idle",
                             !.m_write_index = spsc.next_write_index,
                             !.pushed = Append(@, spsc.element),
                             !.push_returned = "true",
                             !.element = 0, !.write_index = 0, !.next_write_index = 0])

\* try_pop: m_read_index.load(relaxed)
C_LoadRead ==
    /\ spsc.cpc = "idle"
    /\ SpscStep([spsc EXCEPT !.cpc = "loaded", !.read_index = spsc.m_read_index])

\* try_pop: the test against m_write_index; return nullopt when empty
C_LoadWrite ==
    /\ spsc.cpc = "loaded"
    /\ SpscStep(IF queue_empty(spsc)
                THEN [spsc EXCEPT !.cpc = "idle", !.read_index = 0,
                                  !.pop_returned = "nullopt"]
                ELSE [spsc EXCEPT !.cpc = "read"])

\* try_pop: result = std::move(m_buffer[read_index])
C_Read ==
    /\ spsc.cpc = "read"
    /\ SpscStep([spsc EXCEPT !.cpc = "got", !.result = spsc.m_buffer[spsc.read_index]])

\* try_pop: m_read_index.store((read_index + 1) & (m_capacity - 1), release);
\* return result
C_StoreRead ==
    /\ spsc.cpc = "got"
    /\ SpscStep([spsc EXCEPT !.cpc = "idle",
                             !.m_read_index = Mask(spsc.read_index + 1),
                             !.popped = Append(@, spsc.result),
                             !.pop_returned = "value",
                             !.read_index = 0, !.result = 0])

NextSpsc ==
    \/ P_LoadWrite \/ P_LoadRead \/ P_WriteBegin \/ P_WriteEnd \/ P_StoreWrite
    \/ C_LoadRead \/ C_LoadWrite \/ C_Read \/ C_StoreRead

SpecSpsc == InitSpsc /\ [][NextSpsc]_vars

IsPrefix(s, t) == Len(s) <= Len(t) /\ \A i \in 1..Len(s) : s[i] = t[i]

\* ------------------------------------------------------------------ C26
\* C26: with one producer and one consumer running concurrently, the values
\* returned by successful try_pop calls are, in order, a prefix of the
\* values accepted by successful try_push calls (FIFO, nothing lost, nothing
\* returned twice), and the value the consumer takes from a slot is the
\* completely written next element, never a torn or unwritten one.
C26_SpscFifo ==
    /\ IsPrefix(spsc.popped, spsc.pushed)
    /\ spsc.cpc = "got" =>
          /\ Len(spsc.popped) < Len(spsc.pushed)
          /\ spsc.result = spsc.pushed[Len(spsc.popped) + 1]
    /\ \A i \in 1..Len(spsc.pushed) : spsc.pushed[i] = i

\* the consumer has received every value the producer offered, in order
C26_Witness ==
    /\ Len(spsc.pushed) = SpscMaxPush /\ spsc.popped = spsc.pushed

\* ------------------------------------------------------------------ C40
\* the elements that were accepted and not yet handed out
Stored == Len(spsc.pushed) - Len(spsc.popped)

\* both indices are buffer positions, and their distance is the number of
\* stored elements, which leaves one slot free
SpscIndices ==
    /\ spsc.m_read_index \in 0..(m_capacity - 1)
    /\ spsc.m_write_index \in 0..(m_capacity - 1)
    /\ Stored = (spsc.m_write_index - spsc.m_read_index) % m_capacity
    /\ Stored <= m_capacity - 1

\* what a call that fails must leave alone
SpscUntouched ==
    /\ spsc'.m_buffer = spsc.m_buffer
    /\ spsc'.m_read_index = spsc.m_read_index
    /\ spsc'.m_write_index = spsc.m_write_index
    /\ spsc'.pushed = spsc.pushed
    /\ spsc'.popped = spsc.popped

\* try_push returns at its test of m_read_index or at its store of m_write_index
PushReturns == spsc.ppc # "idle" /\ spsc'.ppc = "idle"
PushTests == spsc.ppc = "loaded" /\ spsc'.ppc # "loaded"

\* try_pop returns at its test of m_write_index or at its store of m_read_index
PopReturns == spsc.cpc # "idle" /\ spsc'.cpc = "idle"
PopTests == spsc.cpc = "loaded" /\ spsc'.cpc # "loaded"

SpscRefusals ==
    /\ PushTests => ((PushReturns /\ spsc'.push_returned = "false")
                        <=> Stored = m_capacity - 1)
    /\ PushReturns /\ spsc'.push_returned = "false" => SpscUntouched
    /\ PushReturns /\ spsc'.push_returned = "true" =>
          /\ Stored < m_capacity - 1
          /\ Len(spsc'.pushed) = Len(spsc.pushed) + 1
    /\ PopTests => ((PopReturns /\ spsc'.pop_returned = "nullopt")
                       <=> spsc.m_read_index = spsc.m_write_index)
    /\ PopReturns /\ spsc'.pop_returned = "nullopt" => SpscUntouched
    /\ PopReturns /\ spsc'.pop_returned = "value" =>
          /\ spsc.m_read_index # spsc.m_write_index
          /\ Len(spsc'.popped) = Len(spsc.popped) + 1

\* C40: in spsc_queue<T, N> both indices always stay in [0, 2^N); the number
\* of stored elements is (write_index - read_index) mod 2^N and never
\* exceeds 2^N - 1; try_push returns false and changes nothing exactly when
\* 2^N - 1 elements are stored at its test of the read index, and try_pop
\* returns an empty optional and changes nothing exactly when the indices
\* are equal at its test of the write index.
C40_SpscIndicesAndRefusals == []SpscIndices /\ [][SpscRefusals]_vars

\* after the indices have wrapped around, try_push has just been refused on
\* a queue holding 2^N - 1 elements, and try_pop was refused before
C40_Witness ==
    /\ Len(spsc.pushed) >= m_capacity
    /\ spsc.ppc = "idle" /\ spsc.push_returned = "false"
    /\ Stored = m_capacity - 1
    /\ spsc.m_write_index < spsc.m_read_index
    /\ spsc.pop_returned = "nullopt"

\* ====================================================== threadsafe_queue
\* Each thread makes TqOps calls of one member function of the same queue:
\* push, emplace, the blocking pop, or try_pop.  What happens while a thread
\* holds m_mutex is one step; locking, waiting on not_empty_, being woken
\* and notify_one are steps of their own.
TqRoles == {"push", "emplace", "pop", "try_pop"}
Nullopt == 0

\* the item thread t hands to its next push or emplace
Item(t) == t * 10 + tq.left[t]

\* Threads are interchangeable, so the roles are handed out in this order:
\* the producers have the lower thread numbers.
TqRoleSeq == <<"push", "emplace", "pop", "try_pop">>

InitTq ==
    /\ PtrIdle /\ spsc = SpscInit /\ ts = TsInit /\ sw = SwInit /\ vec = VecInit /\ up = UpInit /\ mo = MoInit /\ draft = DraftInit
    /\ \E r \in [TqThreads -> 1..Len(TqRoleSeq)] :
          /\ \A t \in TqThreads, u \in TqThreads : t < u => r[t] <= r[u]
          /\ tq = [TqInit EXCEPT !.role = [t \in TqThreads |-> TqRoleSeq[r[t]]],
                                 !.left = [t \in TqThreads |-> TqOps]]

TqStep(q) == tq' = q /\ UNCHANGED <<ptrVars, spsc, ts, sw, vec, up, mo, draft>>

\* the call of t has returned
Returned(q, t) == [q EXCEPT !.tpc[t] = "idle", !.left[t] = @ - 1]

\* a notify_one that wakes nobody
notify_one_lost(q, w) == q

\* not_empty_.notify_one() waking the waiting thread w
notify_one(q, w) == [q EXCEPT !.waiters = @ \ {w}, !.tpc[w] = "woken"]

\* std::unique_lock<std::mutex> unique_lck(m_mutex) in push, emplace, pop
Q_Lock(t) ==
    /\ tq.tpc[t] = "idle" /\ tq.left[t] > 0
    /\ tq.role[t] \in {"push", "emplace", "pop"}
    /\ tq.m_mutex = 0
    /\ TqStep([tq EXCEPT !.m_mutex = t, !.tpc[t] = "locked"])

\* push / emplace: m_queue.push(item); unique_lck.unlock()
Q_Push(t) ==
    /\ tq.tpc[t] = "locked" /\ tq.role[t] \in {"push", "emplace"}
    /\ TqStep([tq EXCEPT !.m_queue = Append(@, Item(t)), !.m_mutex = 0,
                         !.tpc[t] = "notify"])

\* a push or emplace that returns without notifying
Q_Notify_skipped(t) ==
    /\ tq.tpc[t] = "notify"
    /\ TqStep(Returned(tq, t))

\* push / emplace: not_empty_.notify_one(); return
Q_Notify(t) ==
    /\ tq.tpc[t] = "notify"
    /\ IF tq.waiters = {}
       THEN TqStep(Returned(tq, t))
       ELSE \E w \in tq.waiters : TqStep(Returned(notify_one(tq, w), t))

\* pop: not_empty_.wait(unique_lck, pred) finds the queue empty, releases
\* the mutex and blocks
Q_Wait(t) ==
    /\ tq.tpc[t] = "locked" /\ tq.role[t] = "pop"
    /\ tq.m_queue = <<>>
    /\ TqStep([tq EXCEPT !.m_mutex = 0, !.waiters = @ \cup {t}, !.tpc[t] = "waiting"])

\* a condition variable may wake a waiting thread without a notification
Q_SpuriousWake(t) ==
    /\ tq.tpc[t] = "waiting" /\ t \in tq.waiters
    /\ TqStep(notify_one(tq, t))

\* wait: the woken thread takes the mutex again, then tests the predicate
Q_Relock(t) ==
    /\ tq.tpc[t] = "woken"
    /\ tq.m_mutex = 0
    /\ TqStep([tq EXCEPT !.m_mutex = t, !.tpc[t] = "locked"])

\* pop: the predicate holds; item = m_queue.front(); m_queue.pop(); return
\* item (the lock is released on return)
Q_Take(t) ==
    /\ tq.tpc[t] = "locked" /\ tq.role[t] = "pop"
    /\ tq.m_queue # <<>>
    /\ TqStep(Returned([tq EXCEPT !.got[t] = Append(@, Head(tq.m_queue)),
                                  !.m_queue = Tail(@), !.m_mutex = 0], t))

\* try_pop: unique_lck(m_mutex, std::try_to_lock) gets the mutex
Q_TryLock(t) ==
    /\ tq.tpc[t] = "idle" /\ tq.left[t] > 0 /\ tq.role[t] = "try_pop"
    /\ tq.m_mutex = 0
    /\ TqStep([tq EXCEPT !.m_mutex = t, !.tpc[t] = "locked"])

\* try_pop: the mutex is held by another thread, !unique_lck, return nullopt
Q_TryLockFail(t) ==
    /\ tq.tpc[t] = "idle" /\ tq.left[t] > 0 /\ tq.role[t] = "try_pop"
    /\ tq.m_mutex # 0
    /\ TqStep(Returned([tq EXCEPT !.got[t] = Append(@, Nullopt)], t))

\* try_pop with the mutex: nullopt if m_queue.empty(), else the front item
Q_TryTake(t) ==
    /\ tq.tpc[t] = "locked" /\ tq.role[t] = "try_pop"
    /\ TqStep(IF tq.m_queue = <<>>
              THEN Returned([tq EXCEPT !.got[t] = Append(@, Nullopt), !.m_mutex = 0], t)
              ELSE Returned([tq EXCEPT !.got[t] = Append(@, Head(tq.m_queue)),
                                       !.m_queue = Tail(@), !.m_mutex = 0], t))

NextTq ==
    \/ \E t \in TqThreads : Q_Lock(t)
    \/ \E t \in TqThreads : Q_Push(t)
    \/ \E t \in TqThreads : Q_Notify(t)
    \/ \E t \in TqThreads : Q_Wait(t)
    \/ \E t \in TqThreads : Q_SpuriousWake(t)
    \/ \E t \in TqThreads : Q_Relock(t)
    \/ \E t \in TqThreads : Q_Take(t)
    \/ \E t \in TqThreads : Q_TryLock(t)
    \/ \E t \in TqThreads : Q_TryLockFail(t)
    \/ \E t \in TqThreads : Q_TryTake(t)

SpecTq == InitTq /\ [][NextTq]_vars

\* Fair scheduling: a thread that can take a step of its call keeps running
\* (weak fairness), and a thread that asks for the mutex gets it if the
\* mutex is free again and again (strong fairness).  A spurious wake-up is
\* never required to happen.
\* the steps of thread t that need nothing from other threads
Q_Run(t) ==
    \/ Q_Push(t) \/ Q_Notify(t) \/ Q_Wait(t) \/ Q_Take(t)
    \/ Q_TryTake(t) \/ Q_TryLockFail(t)

\* the steps in which thread t obtains m_mutex
Q_Acquire(t) == Q_Lock(t) \/ Q_Relock(t) \/ Q_TryLock(t)

FairTq ==
    \A t \in TqThreads : WF_vars(Q_Run(t)) /\ SF_vars(Q_Acquire(t))

FairSpecTq == SpecTq /\ FairTq

\* ------------------------------------------------ threadsafe_queue claims
Producers == {t \in TqThreads : tq.role[t] \in {"push", "emplace"}}
Consumers == {t \in TqThreads : tq.role[t] = "pop"}
\* the items the producers hand over during the run
AllItems == {p * 10 + k : p \in TqThreads, k \in 1..TqOps}
ProducedItems == {p * 10 + k : p \in Producers, k \in 1..TqOps}
\* the calls that have returned something: <<thread, index>>
Returns == {<<t, i>> \in TqThreads \X (1..TqOps) : i <= Len(tq.got[t])}
AllReturned == \A t \in TqThreads : tq.tpc[t] = "idle" /\ tq.left[t] = 0

\* several producers calling push, several consumers calling pop, as many
\* pops as pushes, and nobody else
Balanced ==
    /\ \A t \in TqThreads : tq.role[t] \in {"push", "pop"}
    /\ Cardinality(Producers) = Cardinality(Consumers)
    /\ Cardinality(Producers) >= 2

NoItemTwice ==
    \A a \in Returns, b \in Returns :
        a # b => tq.got[a[1]][a[2]] # tq.got[b[1]][b[2]]

EveryItemOnce ==
    /\ NoItemTwice
    /\ {tq.got[a[1]][a[2]] : a \in Returns} = ProducedItems

\* C27: with several producers calling push and several consumers calling
\* the blocking pop, and as many pops as pushes, no item is ever returned
\* by two pops, and under fair scheduling every thread terminates with
\* every pushed item returned by exactly one pop and the queue empty.
C27_BalancedRunDrains ==
    /\ [](Balanced => NoItemTwice)
    /\ (Balanced ~> (AllReturned /\ EveryItemOnce /\ tq.m_queue = <<>>))

C27_Witness ==
    /\ Balanced /\ AllReturned /\ EveryItemOnce /\ tq.m_queue = <<>>
    /\ \E c \in Consumers, d \in Consumers : c < d /\ tq.got[c][1] > tq.got[d][1]

\* c is the only consumer and every other thread pushes or emplaces
OneConsumer(c) == Consumers = {c} /\ Producers = TqThreads \ {c}

\* C28: a pop does not return while the queue is empty, and under fair
\* scheduling a pop of the only consumer that is blocked in wait returns
\* the item that a push or emplace of another thread has put at the front.
C28_BlockedPopIsServed ==
    /\ [][\A c \in TqThreads :
            tq.role[c] = "pop" /\ tq.m_queue = <<>> => tq.got[c]' = tq.got[c]]_vars
    /\ \A c \in TqThreads, v \in AllItems :
          (OneConsumer(c) /\ tq.tpc[c] = "waiting"
             /\ tq.m_queue # <<>> /\ Head(tq.m_queue) = v)
          ~> (\E i \in 1..Len(tq.got[c]) : tq.got[c][i] = v)

C28_Witness ==
    \E c \in TqThreads :
        /\ OneConsumer(c) /\ tq.tpc[c] = "woken"
        /\ tq.m_queue # <<>>
        /\ \E p \in Producers : tq.role[p] = "emplace" /\ Head(tq.m_queue) \div 10 = p

\* C29: whenever a try_pop returns, it returns the front element and has
\* removed it if the queue was non-empty, and returns the empty optional
\* only if the queue was empty, whatever the other threads are doing.
C29_TryPopEmptyOnlyWhenEmpty ==
    [][\A t \in TqThreads :
         tq.role[t] = "try_pop" /\ Len(tq.got[t]') = Len(tq.got[t]) + 1 =>
            IF tq.m_queue = <<>>
            THEN tq.got[t]' = Append(tq.got[t], Nullopt) /\ tq.m_queue' = <<>>
            ELSE /\ tq.got[t]' = Append(tq.got[t], Head(tq.m_queue))
                 /\ tq.m_queue' = Tail(tq.m_queue)]_vars

\* ====================================================== threadsafe_stack
\* The stack starts with the elements 1..stored (the top is the last one)
\* and every thread makes one call of push or of pop.  Taking the mutex is
\* a step; inside pop, the copy of the top and its removal are two steps.
TsRoleSeq == <<"push", "pop">>

\* the element thread t pushes
TsElement(t) == 100 + t

InitTs ==
    /\ PtrIdle /\ spsc = SpscInit /\ tq = TqInit /\ sw = SwInit /\ vec = VecInit /\ up = UpInit /\ mo = MoInit /\ draft = DraftInit
    /\ \E r \in [TsThreads -> 1..Len(TsRoleSeq)], n \in 0..TsNumThreads :
          /\ \A t \in TsThreads, u \in TsThreads : t < u => r[t] <= r[u]
          /\ ts = [TsInit EXCEPT !.m_stack = [i \in 1..n |-> i], !.stored = n,
                                 !.role = [t \in TsThreads |-> TsRoleSeq[r[t]]],
                                 !.spc = [t \in TsThreads |-> "idle"]]

TsStep(s) == ts' = s /\ UNCHANGED <<ptrVars, spsc, tq, sw, vec, up, mo, draft>>

\* a lock that lets a thread in while another one is inside
S_Lock_not_exclusive(t) ==
    /\ ts.spc[t] = "idle"
    /\ TsStep([ts EXCEPT !.m_shared_mutex = t, !.spc[t] = "locked"])

\* std::unique_lock unique_lck(m_shared_mutex) in push and pop
S_Lock(t) ==
    /\ ts.spc[t] = "idle"
    /\ ts.m_shared_mutex = 0
    /\ TsStep([ts EXCEPT !.m_shared_mutex = t, !.spc[t] = "locked"])

\* push: m_stack.push(element), unlock on return
S_Push(t) ==
    /\ ts.spc[t] = "locked" /\ ts.role[t] = "push"
    /\ TsStep([ts EXCEPT !.m_stack = Append(@, TsElement(t)),
                         !.m_shared_mutex = 0, !.spc[t] = "done"])

\* pop: if (m_stack.empty()) return std::nullopt
S_PopEmpty(t) ==
    /\ ts.spc[t] = "locked" /\ ts.role[t] = "pop"
    /\ ts.m_stack = <<>>
    /\ TsStep([ts EXCEPT !.ret[t] = <<Nullopt>>,
                         !.m_shared_mutex = 0, !.spc[t] = "done"])

\* pop: element = m_stack.top()
S_Top(t) ==
    /\ ts.spc[t] = "locked" /\ ts.role[t] = "pop"
    /\ ts.m_stack # <<>>
    /\ TsStep([ts EXCEPT !.element[t] = ts.m_stack[Len(ts.m_stack)],
                         !.spc[t] = "copied"])

\* pop: m_stack.pop(); return element, unlock on return
S_Pop(t) ==
    /\ ts.spc[t] = "copied"
    /\ TsStep([ts EXCEPT !.m_stack = SubSeq(@, 1, Len(@) - 1),
                         !.ret[t] = <<ts.element[t]>>, !.element[t] = 0,
                         !.m_shared_mutex = 0, !.spc[t] = "done"])

NextTs ==
    \/ \E t \in TsThreads : S_Lock(t)
    \/ \E t \in TsThreads : S_Push(t)
    \/ \E t \in TsThreads : S_PopEmpty(t)
    \/ \E t \in TsThreads : S_Top(t)
    \/ \E t \in TsThreads : S_Pop(t)

SpecTs == InitTs /\ [][NextTs]_vars

\* ------------------------------------------------ threadsafe_stack claims
TsAllDone == \A t \in TsThreads : ts.spc[t] = "done"
TsAllPop == \A t \in TsThreads : ts.role[t] = "pop"
TsAllPush == \A t \in TsThreads : ts.role[t] = "push"
\* size() once every thread has been joined
size == Len(ts.m_stack)

\* C30: when a stack holding n elements is popped by n threads at once,
\* every pop returns a value, the values returned are exactly the stored
\* elements, each once, and the stack ends empty; when n threads push onto
\* an empty stack at once, size() is n afterwards.
C30_ConcurrentPopsAndPushes ==
    /\ TsAllPop /\ ts.stored = TsNumThreads =>
          /\ \A t \in TsThreads, u \in TsThreads :
                t # u /\ ts.ret[t] # <<>> /\ ts.ret[u] # <<>> => ts.ret[t] # ts.ret[u]
          /\ \A t \in TsThreads :
                ts.ret[t] # <<>> => ts.ret[t][1] \in 1..ts.stored
          /\ TsAllDone =>
                /\ {ts.ret[t][1] : t \in TsThreads} = 1..ts.stored
                /\ ts.m_stack = <<>>
    /\ TsAllPush /\ ts.stored = 0 /\ TsAllDone =>
          /\ size = TsNumThreads
          /\ {ts.m_stack[i] : i \in 1..size} = {TsElement(t) : t \in TsThreads}

C30_Witness ==
    /\ TsAllPop /\ ts.stored = TsNumThreads /\ TsAllDone
    /\ ts.m_stack = <<>>
    /\ \E t \in TsThreads, u \in TsThreads : t < u /\ ts.ret[t][1] < ts.ret[u][1]

\* ================================================ threadsafe_stack::swap
\* Each thread calls x.swap(y) once on the same two stacks, x being either
\* of them.  std::scoped_lock takes the two mutexes as std::lock does: lock
\* one, try the other, and on failure let go and start with the other one.
\* std::swap of the two std::stack members is three moves.
SwContents == {<<>>, <<0>>, <<0, 2>>, <<1>>, <<1, 3>>}

Other(x) == 3 - x

InitSw ==
    /\ PtrIdle /\ spsc = SpscInit /\ tq = TqInit /\ ts = TsInit /\ vec = VecInit /\ up = UpInit /\ mo = MoInit /\ draft = DraftInit
    /\ \E a \in SwContents, b \in SwContents, l \in [SwThreads -> SwStacks] :
          /\ a # b
          /\ sw = [SwInit EXCEPT !.m_stack = [x \in SwStacks |-> IF x = 1 THEN a ELSE b],
                                 !.orig = [x \in SwStacks |-> IF x = 1 THEN a ELSE b],
                                 !.wpc = [t \in SwThreads |-> "start"],
                                 !.this = l, !.first = l]

SwStep(w) == sw' = w /\ UNCHANGED <<ptrVars, spsc, tq, ts, vec, up, mo, draft>>

\* scoped_lock: lock() of the mutex this attempt starts with
W_LockFirst(t) ==
    /\ sw.wpc[t] = "start"
    /\ sw.m_shared_mutex[sw.first[t]] = 0
    /\ SwStep([sw EXCEPT !.m_shared_mutex[sw.first[t]] = t, !.wpc[t] = "try"])

\* a scoped_lock that keeps the first mutex while it waits for the second
W_TrySecond_hold_and_wait(t) ==
    /\ sw.wpc[t] = "try"
    /\ sw.m_shared_mutex[Other(sw.first[t])] = 0
    /\ SwStep([sw EXCEPT !.m_shared_mutex[Other(sw.first[t])] = t, !.wpc[t] = "locked"])

\* scoped_lock: try_lock() of the other mutex; on failure unlock the first
\* and start again with the one that was busy
W_TrySecond(t) ==
    /\ sw.wpc[t] = "try"
    /\ IF sw.m_shared_mutex[Other(sw.first[t])] = 0
       THEN SwStep([sw EXCEPT !.m_shared_mutex[Other(sw.first[t])] = t,
                              !.wpc[t] = "locked"])
       ELSE SwStep([sw EXCEPT !.m_shared_mutex[sw.first[t]] = 0,
                              !.first[t] = Other(@), !.wpc[t] = "start"])

\* std::swap(m_stack, other.m_stack): tmp = std::move(m_stack)
W_MoveToTmp(t) ==
    /\ sw.wpc[t] = "locked"
    /\ SwStep([sw EXCEPT !.tmp[t] = sw.m_stack[sw.this[t]], !.wpc[t] = "moved1"])

\* std::swap: m_stack = std::move(other.m_stack)
W_MoveOther(t) ==
    /\ sw.wpc[t] = "moved1"
    /\ SwStep([sw EXCEPT !.m_stack[sw.this[t]] = sw.m_stack[Other(sw.this[t])],
                         !.wpc[t] = "moved2"])

\* std::swap: other.m_stack = std::move(tmp); ~scoped_lock unlocks both
W_MoveFromTmp(t) ==
    /\ sw.wpc[t] = "moved2"
    /\ SwStep([sw EXCEPT !.m_stack[Other(sw.this[t])] = sw.tmp[t], !.tmp[t] = <<>>,
                         !.m_shared_mutex = [x \in SwStacks |-> 0],
                         !.wpc[t] = "done"])

NextSw ==
    \/ \E t \in SwThreads : W_LockFirst(t)
    \/ \E t \in SwThreads : W_TrySecond(t)
    \/ \E t \in SwThreads : W_MoveToTmp(t)
    \/ \E t \in SwThreads : W_MoveOther(t)
    \/ \E t \in SwThreads : W_MoveFromTmp(t)

SpecSw == InitSw /\ [][NextSw]_vars

\* ------------------------------------------------------- swap claims
SwAllDone == \A t \in SwThreads : sw.wpc[t] = "done"
SwInSwap == \E t \in SwThreads : sw.wpc[t] \in {"locked", "moved1", "moved2"}
SwSwapped == [x \in SwStacks |-> sw.orig[Other(x)]]
SwDoneCount == Cardinality({t \in SwThreads : sw.wpc[t] = "done"})

\* C31: threads that swap the same pair of stacks at once, in either
\* direction, never deadlock; outside a swap the two stacks hold either
\* the original or the exchanged contents according to the number of
\* swaps finished; and after two swaps each stack holds its original
\* contents again.
C31_ConcurrentSwapsDoNotDeadlock ==
    /\ ~SwAllDone /\ sw.wpc # SwInit.wpc => ENABLED NextSw
    /\ ~SwInSwap =>
          sw.m_stack = IF SwDoneCount % 2 = 0 THEN sw.orig ELSE SwSwapped
    /\ SwAllDone /\ SwNumThreads = 2 /\ sw.orig # SwInit.orig => sw.m_stack = sw.orig

C31_Witness ==
    /\ SwAllDone /\ sw.m_stack = sw.orig /\ sw.orig[1] # sw.orig[2]
    /\ sw.this[1] # sw.this[2]
    /\ \E t \in SwThreads : sw.first[t] # sw.this[t]

\* ============================================================ dev::vector
\* A vector of an int-like element type: moving an element copies it.  The
\* storage block is a sequence of m_capacity slots, a slot holding an
\* element value or Raw.  Slot k of the code (counted from 0) is
\* m_elements[k + 1] here.
VecValues == 0..VecMaxVal

\* value_type{}
VecDefault == 0

\* the argument of insert: a value of its own, or a reference to v[idx]
VecArgs ==
    [ref : {FALSE}, val : 1..VecMaxVal, idx : {0}]
        \cup [ref : {TRUE}, val : {0}, idx : 0..(VecMaxCap - 1)]

\* what the reference `value` denotes at the moment it is read
Deref(v, arg) == IF arg.ref THEN v.m_elements[arg.idx + 1] ELSE arg.val

\* allocate_aux(new_capacity): raw memory
allocate_aux(new_capacity) == [k \in 1..new_capacity |-> Raw]

\* vector(std::initializer_list<T> src)
vector_initializer_list(src) ==
    [VecInit EXCEPT !.m_elements = src, !.m_size = Len(src), !.m_capacity = Len(src)]

InitVec ==
    /\ PtrIdle /\ spsc = SpscInit /\ tq = TqInit /\ ts = TsInit /\ sw = SwInit /\ up = UpInit /\ mo = MoInit /\ draft = DraftInit
    /\ \E n \in 0..2 : \E src \in [1..n -> 1..VecMaxVal] :
          vec = vector_initializer_list(src)

VecStep(v) == vec' = v /\ UNCHANGED <<ptrVars, spsc, tq, ts, sw, up, mo, draft>>

full(v) == v.m_size = v.m_capacity

\* the capacity a full vector grows to
new_capacity(v) == IF v.m_capacity # 0 THEN 2 * v.m_capacity ELSE 16

\* copy_old_storage_to_new(p): [begin(), end()) moved to the front of p
copy_old_storage_to_new(v, p) ==
    [k \in 1..Len(p) |-> IF k <= v.m_size THEN v.m_elements[k] ELSE p[k]]

\* reserve(new_capacity)
reserve(v, n) ==
    IF n <= v.m_capacity THEN v
    ELSE [v EXCEPT !.m_elements = copy_old_storage_to_new(v, allocate_aux(n)),
                   !.m_capacity = n]

\* push_back(value)
push_back(v, x) ==
    IF full(v)
    THEN LET p == [allocate_aux(new_capacity(v)) EXCEPT ![v.m_size + 1] = x]
         IN [v EXCEPT !.m_elements = copy_old_storage_to_new(v, p),
                      !.m_capacity = new_capacity(v), !.m_size = @ + 1]
    ELSE [v EXCEPT !.m_elements[v.m_size + 1] = x, !.m_size = @ + 1]

\* emplace_back(args...): if (full()) grow(); construct at end()
emplace_back(v, x) ==
    LET g == IF full(v) THEN reserve(v, new_capacity(v)) ELSE v
    IN [g EXCEPT !.m_elements[g.m_size + 1] = x, !.m_size = @ + 1]

\* resize(new_size)
resize(v, n) ==
    IF n = v.m_size THEN v
    ELSE IF n < v.m_size
    THEN [v EXCEPT !.m_elements = [k \in 1..v.m_capacity |->
                                     IF k > n /\ k <= v.m_size THEN Raw ELSE @[k]],
                   !.m_size = n]
    ELSE LET g == reserve(v, n)
         IN [g EXCEPT !.m_elements = [k \in 1..g.m_capacity |->
                                        IF k > v.m_size /\ k <= n THEN VecDefault ELSE @[k]],
                      !.m_size = n]

\* pop_back(): std::destroy_at(end().get()); --m_size.  The slot that is
\* destroyed is the one past the last element.  If an element is
\* constructed there its life ends; otherwise the call is undefined:
\* the slot is raw memory, or lies behind the storage block.
pop_back_defined(v) ==
    v.m_size + 1 <= v.m_capacity /\ v.m_elements[v.m_size + 1] # Raw

pop_back(v) ==
    IF pop_back_defined(v)
    THEN [v EXCEPT !.m_elements[v.m_size + 1] = Raw, !.m_size = @ - 1]
    ELSE [v EXCEPT !.m_size = @ - 1, !.vub = "destroy_at_end"]

\* insert(position, value) into a full vector: a new block is filled with
\* value at index, the elements before it and the elements after it
insert_full(v, index, arg) ==
    [v EXCEPT !.m_elements =
                 [k \in 1..new_capacity(v) |->
                     IF k = index + 1 THEN Deref(v, arg)
                     ELSE IF k <= index THEN v.m_elements[k]
                     ELSE IF k <= v.m_size + 1 THEN v.m_elements[k - 1]
                     ELSE Raw],
              !.m_capacity = new_capacity(v), !.m_size = @ + 1, !.ret = index]

\* insert(position, value) with spare capacity:
\*   std::uninitialized_move(end() - 1, end(), end());
\*   std::move_backward(pos_, end(), end());     (each element onto itself)
\*   *pos_ = std::forward<U>(value);
\* garbage is what the read of the slot before begin() yields when the vector is empty
insert_spare(v, index, arg, garbage) ==
    LET last == IF v.m_size = 0 THEN garbage ELSE v.m_elements[v.m_size]
        moved == [v EXCEPT !.m_elements[v.m_size + 1] = last,
                           !.vub = IF v.m_size = 0 THEN "read_before_begin" ELSE @]
    IN [moved EXCEPT !.m_elements[index + 1] = Deref(moved, arg),
                     !.m_size = @ + 1, !.ret = index]

insert(v, index, arg, garbage) ==
    IF full(v) THEN insert_full(v, index, arg) ELSE insert_spare(v, index, arg, garbage)

\* ---- the calls
VecRunning == ~vec.halted

V_PushBack(x) ==
    /\ VecRunning
    /\ full(vec) => new_capacity(vec) <= VecMaxCap
    /\ VecStep(push_back(vec, x))

V_EmplaceBack(x) ==
    /\ VecRunning
    /\ full(vec) => new_capacity(vec) <= VecMaxCap
    /\ VecStep(emplace_back(vec, x))

\* pop_back on a non-empty vector; an undefined call either goes on as if
\* nothing had been destroyed or stops the program
V_PopBack ==
    /\ VecRunning
    /\ vec.m_size > 0
    /\ \/ VecStep(pop_back(vec))
       \/ ~pop_back_defined(vec) /\ VecStep([pop_back(vec) EXCEPT !.halted = TRUE])

V_Resize(n) ==
    /\ VecRunning
    /\ n # vec.m_size
    /\ VecStep(resize(vec, n))

V_Reserve(n) ==
    /\ VecRunning
    /\ n > vec.m_capacity
    /\ VecStep(reserve(vec, n))

V_Insert(index, arg) ==
    /\ VecRunning
    /\ index <= vec.m_size
    /\ arg.ref => arg.idx < vec.m_size
    /\ full(vec) => new_capacity(vec) <= VecMaxCap
    /\ \E garbage \in VecValues :
          \/ VecStep(insert(vec, index, arg, garbage))
          \/ /\ ~full(vec) /\ vec.m_size = 0
             /\ VecStep([insert(vec, index, arg, garbage) EXCEPT !.halted = TRUE])

NextVec ==
    \/ \E x \in 1..VecMaxVal : V_PushBack(x)
    \/ \E x \in 1..VecMaxVal : V_EmplaceBack(x)
    \/ V_PopBack
    \/ \E n \in 0..VecMaxCap : V_Resize(n)
    \/ \E n \in 1..VecMaxCap : V_Reserve(n)
    \/ \E index \in 0..VecMaxCap, arg \in VecArgs : V_Insert(index, arg)

SpecVec == InitVec /\ [][NextVec]_vars

\* ------------------------------------------------------------ vector claims
\* v[0..size()) as a sequence
Elements(v) == SubSeq(v.m_elements, 1, v.m_size)
ConstructedSlots(v) == {k \in 1..v.m_capacity : v.m_elements[k] # Raw}

\* C32: insert(begin() + i, x), into a full vector or one with spare
\* capacity, yields v[0..i), x, v[i..size()), makes size() one larger and
\* returns an iterator to the inserted element, also when x refers to an
\* element of v.
C32_InsertPutsValueAtPosition ==
    [][\A index \in 0..VecMaxCap, arg \in VecArgs :
         V_Insert(index, arg) =>
            /\ Elements(vec') = SubSeq(Elements(vec), 1, index)
                                   \o <<Deref(vec, arg)>>
                                   \o SubSeq(Elements(vec), index + 1, vec.m_size)
            /\ vec'.m_size = vec.m_size + 1
            /\ vec'.ret = index
            /\ vec'.vub = vec.vub]_vars

\* C33: pop_back() on a non-empty vector ends the life of the last element
\* only, makes size() one smaller and leaves the other elements as they
\* are, so that at any time exactly the slots [0, size()) hold constructed
\* elements and size() <= capacity().
C33_PopBackDestroysLastElement ==
    /\ [](/\ ConstructedSlots(vec) = 1..vec.m_size
          /\ vec.m_size <= vec.m_capacity)
    /\ [][V_PopBack =>
            /\ vec'.m_size = vec.m_size - 1
            /\ vec'.m_elements = [vec.m_elements EXCEPT ![vec.m_size] = Raw]
            /\ vec'.vub = vec.vub]_vars

\* ======================================================== dev::unique_ptr
\* Handle objects in numbered slots and heap objects 1..UpMaxPtr; 0 is the
\* null pointer.  For each heap object the model keeps whether a handle was
\* ever given it, how often it was passed to the deleter, and whether
\* release() handed it back to the caller.
InitUp ==
    /\ PtrIdle /\ spsc = SpscInit /\ tq = TqInit /\ ts = TsInit /\ sw = SwInit /\ mo = MoInit /\ draft = DraftInit
    /\ vec = VecInit /\ up = UpInit

UpStep(U) == up' = U /\ UNCHANGED <<ptrVars, spsc, tq, ts, sw, vec, mo, draft>>

\* (*deleter)(raw_ptr): delete raw_ptr; deleting the null pointer does nothing
default_deleter(U, raw_ptr) ==
    IF raw_ptr = 0 THEN U
    ELSE [U EXCEPT !.deleted[raw_ptr] = IF @ < 2 THEN @ + 1 ELSE @]

\* unique_ptr()
up_ctor_default(U, h) ==
    [U EXCEPT !.live[h] = TRUE, !.m_underlying_ptr[h] = 0]

\* explicit unique_ptr(T* ptr)
up_ctor(U, h, ptr) ==
    [U EXCEPT !.live[h] = TRUE, !.m_underlying_ptr[h] = ptr,
              !.taken = [p \in UpPtrs |-> @[p] \/ p = ptr]]

\* swap(other)
up_swap(U, h, other) ==
    [U EXCEPT !.m_underlying_ptr[h] = U.m_underlying_ptr[other],
              !.m_underlying_ptr[other] = U.m_underlying_ptr[h]]

\* a move constructor that leaves its pointer in other
up_move_ctor_keeps_source(U, h, other) ==
    [U EXCEPT !.live[h] = TRUE, !.m_underlying_ptr[h] = U.m_underlying_ptr[other]]

\* unique_ptr(unique_ptr&& other)
up_move_ctor(U, h, other) ==
    [U EXCEPT !.live[h] = TRUE, !.m_underlying_ptr[h] = U.m_underlying_ptr[other],
              !.m_underlying_ptr[other] = 0]

\* ~unique_ptr()
up_dtor(U, h) ==
    [default_deleter(U, U.m_underlying_ptr[h]) EXCEPT
        !.live[h] = FALSE, !.m_underlying_ptr[h] = 0]

\* operator=(unique_ptr&& other): unique_ptr(std::move(other)).swap(*this),
\* then the temporary is destroyed
up_move_assign(U, h, other) ==
    LET taken_over == U.m_underlying_ptr[other]
        emptied == [U EXCEPT !.m_underlying_ptr[other] = 0]
        old == emptied.m_underlying_ptr[h]
        swapped == [emptied EXCEPT !.m_underlying_ptr[h] = taken_over]
    IN default_deleter(swapped, old)

\* release()
up_release(U, h) ==
    [U EXCEPT !.m_underlying_ptr[h] = 0,
              !.released = [p \in UpPtrs |-> @[p] \/ p = U.m_underlying_ptr[h]]]

\* reset(other)
up_reset(U, h, other) ==
    IF U.m_underlying_ptr[h] # other
    THEN [default_deleter(U, U.m_underlying_ptr[h]) EXCEPT
            !.m_underlying_ptr[h] = other,
            !.taken = [p \in UpPtrs |-> @[p] \/ p = other]]
    ELSE U

\* ---- the calls
\* a heap object fresh from new, not yet given to any handle
UpFresh == {p \in UpPtrs : ~up.taken[p]}

U_CtorDefault(h) ==
    /\ ~up.live[h]
    /\ UpStep(up_ctor_default(up, h))

U_Ctor(h, ptr) ==
    /\ ~up.live[h] /\ ptr \in UpFresh
    /\ UpStep(up_ctor(up, h, ptr))

U_MoveCtor(h, other) ==
    /\ ~up.live[h] /\ up.live[other]
    /\ UpStep(up_move_ctor(up, h, other))

U_MoveAssign(h, other) ==
    /\ up.live[h] /\ up.live[other]
    /\ UpStep(up_move_assign(up, h, other))

U_Reset(h, other) ==
    /\ up.live[h]
    /\ other \in UpFresh \cup {0, up.m_underlying_ptr[h]}
    /\ UpStep(up_reset(up, h, other))

U_Release(h) ==
    /\ up.live[h]
    /\ UpStep(up_release(up, h))

U_Swap(h, other) ==
    /\ up.live[h] /\ up.live[other] /\ h # other
    /\ UpStep(up_swap(up, h, other))

U_Dtor(h) ==
    /\ up.live[h]
    /\ UpStep(up_dtor(up, h))

NextUp ==
    \/ \E h \in UpHandles : U_CtorDefault(h)
    \/ \E h \in UpHandles, ptr \in UpPtrs : U_Ctor(h, ptr)
    \/ \E h \in UpHandles, other \in UpHandles : U_MoveCtor(h, other)
    \/ \E h \in UpHandles, other \in UpHandles : U_MoveAssign(h, other)
    \/ \E h \in UpHandles, other \in 0..UpMaxPtr : U_Reset(h, other)
    \/ \E h \in UpHandles : U_Release(h)
    \/ \E h \in UpHandles, other \in UpHandles : U_Swap(h, other)
    \/ \E h \in UpHandles : U_Dtor(h)

SpecUp == InitUp /\ [][NextUp]_vars

\* -------------------------------------------------------- unique_ptr claims
UpOwners(p) == {h \in UpHandles : up.live[h] /\ up.m_underlying_ptr[h] = p}

\* C34: every heap object given to a handle is passed to the deleter
\* exactly once, when no handle owns it any more, except an object handed
\* back by release(), which is never passed to the deleter; release()
\* leaves the handle null, and reset(get()) deletes nothing.
C34_DeletedExactlyOnce ==
    /\ \A p \in UpPtrs :
          /\ Cardinality(UpOwners(p)) <= 1
          /\ ~up.taken[p] => up.deleted[p] = 0 /\ UpOwners(p) = {}
          /\ up.taken[p] =>
                up.deleted[p] = IF UpOwners(p) # {} \/ up.released[p] THEN 0 ELSE 1
    /\ \A h \in UpHandles :
          up.live[h] =>
             /\ up_release(up, h).m_underlying_ptr[h] = 0
             /\ up_release(up, h).deleted = up.deleted
             /\ up_reset(up, h, up.m_underlying_ptr[h]) = up

C34_Witness ==
    /\ \E p \in UpPtrs : up.released[p] /\ up.deleted[p] = 0
    /\ \E p \in UpPtrs : up.taken[p] /\ ~up.released[p] /\ up.deleted[p] = 1
    /\ \E h \in UpHandles : up.live[h] /\ up.m_underlying_ptr[h] # 0

\* ================================== memory ordering of the reference counter
\* Each thread owns one handle of the same control block and has a view:
\* the set of payload writes that happen before its next step (a write is
\* named after the thread that made it).  The counter carries the view
\* published by the release sequence that ends in its current value.  A
\* read-modify-write with an acquire part adds the counter's view to the
\* thread's, one with a release part adds the thread's view to the
\* counter's, and a relaxed one continues the release sequence unchanged.
MoVariants == {"shared_ptr.h", "part_004"}

\* m_ref_count.fetch_add(1u) / fetch_add(1u, std::memory_order::relaxed)
increment_order(variant) == IF variant = "part_004" THEN "relaxed" ELSE "seq_cst"

\* a decrement that is only bookkeeping
decrement_order_relaxed(variant) == "relaxed"

\* m_ref_count.fetch_sub(1u) / fetch_sub(1u, std::memory_order::acq_rel)
decrement_order(variant) == IF variant = "part_004" THEN "acq_rel" ELSE "seq_cst"

HasAcquire(order) == order \in {"acquire", "acq_rel", "seq_cst"}
HasRelease(order) == order \in {"release", "acq_rel", "seq_cst"}

\* an atomic read-modify-write of m_ref_count by thread t
fetch_add(m, t, delta, order) ==
    LET tv == IF HasAcquire(order) THEN m.view[t] \cup m.count_view ELSE m.view[t]
        cv == IF HasRelease(order) THEN m.count_view \cup tv ELSE m.count_view
    IN [m EXCEPT !.m_ref_count = @ + delta, !.view[t] = tv, !.count_view = cv]

InitMo ==
    /\ PtrIdle /\ spsc = SpscInit /\ tq = TqInit /\ ts = TsInit /\ sw = SwInit /\ draft = DraftInit
    /\ vec = VecInit /\ up = UpInit
    /\ \E v \in MoVariants :
          mo = [MoInit EXCEPT !.variant = v, !.m_ref_count = MoNumThreads,
                              !.mpc = [t \in MoThreads |-> "owner"],
                              !.handles = [t \in MoThreads |-> 1]]

MoStep(m) == mo' = m /\ UNCHANGED <<ptrVars, spsc, tq, ts, sw, vec, up, draft>>

\* an owner writes to the payload through its handle
M_Write(t) ==
    /\ mo.mpc[t] = "owner" /\ ~mo.wrote[t]
    /\ MoStep([mo EXCEPT !.wrote[t] = TRUE, !.view[t] = @ \cup {t}])

\* an owner copies its handle: increment()
M_Copy(t) ==
    /\ mo.mpc[t] = "owner" /\ mo.handles[t] = 1
    /\ MoStep([fetch_add(mo, t, 1, increment_order(mo.variant)) EXCEPT !.handles[t] = 2])

\* an owner lets go of a handle: decrement(); the thread whose decrement
\* took the last share goes on to destroy the payload
M_Release(t) ==
    /\ mo.mpc[t] = "owner"
    /\ LET m == fetch_add(mo, t, -1, decrement_order(mo.variant))
       IN MoStep([m EXCEPT !.handles[t] = @ - 1,
                           !.mpc[t] = IF mo.handles[t] > 1 THEN "owner"
                                      ELSE IF m.m_ref_count = 0 THEN "destroy"
                                      ELSE "gone"])

\* the destroying thread runs the payload's destructor, which reads it
M_Destroy(t) ==
    /\ mo.mpc[t] = "destroy"
    /\ MoStep([mo EXCEPT !.destroyed = TRUE, !.seen = mo.view[t], !.mpc[t] = "gone"])

NextMo ==
    \/ \E t \in MoThreads : M_Write(t)
    \/ \E t \in MoThreads : M_Copy(t)
    \/ \E t \in MoThreads : M_Release(t)
    \/ \E t \in MoThreads : M_Destroy(t)

SpecMo == InitMo /\ [][NextMo]_vars

\* C35: the decrement is acquire-release or stronger and the increment at
\* least relaxed, and the thread whose decrement takes the last share has,
\* when it destroys the payload, every write made to the payload by every
\* former owner in its view.
C35_LastOwnerSeesAllWrites ==
    /\ mo.variant \in MoVariants =>
          /\ decrement_order(mo.variant) \in {"acq_rel", "seq_cst"}
          /\ increment_order(mo.variant) \in {"relaxed", "acquire", "release", "acq_rel", "seq_cst"}
    /\ \A t \in MoThreads :
          mo.mpc[t] = "destroy" => {u \in MoThreads : mo.wrote[u]} \subseteq mo.view[t]
    /\ mo.destroyed =>
          /\ {u \in MoThreads : mo.wrote[u]} \subseteq mo.seen
          /\ mo.m_ref_count = 0
          /\ \A t \in MoThreads : mo.mpc[t] = "gone"

C35_Witness ==
    /\ mo.destroyed /\ mo.variant = "part_004"
    /\ \A u \in MoThreads : mo.wrote[u]
    /\ mo.seen = MoThreads

\* ============================================ draft control blocks
\* The shared_ptr drafts of src/unnamed/part_004 and part_005.  A handle
\* object is "unborn" (not constructed), "owner" (its m_control_block_ptr
\* points to the control block) or "empty" (null m_control_block_ptr); there
\* is one control block.  A counter of 0 that is decremented wraps to
\* 2^64 - 1, written -1.
DraftVariants == {"part_004", "part_005"}

InitDraft ==
    /\ PtrIdle /\ spsc = SpscInit /\ tq = TqInit /\ ts = TsInit /\ sw = SwInit
    /\ vec = VecInit /\ up = UpInit /\ mo = MoInit
    /\ \E v \in DraftVariants : draft = [DraftInit EXCEPT !.variant = v]

DraftStep(D) == draft' = D /\ UNCHANGED <<ptrVars, spsc, tq, ts, sw, vec, up, mo>>

\* decrement(): auto result = m_ref_count.fetch_sub(1u); return result;
draft_decrement(D) ==
    <<D.m_ref_count, [D EXCEPT !.m_ref_count = IF @ = 0 THEN -1 ELSE @ - 1]>>

\* release_shared(): if (decrement() == 0) { destroy the payload; delete this; }
draft_release_shared(D) ==
    LET r == draft_decrement(D)
    IN IF r[1] = 0
       THEN [r[2] EXCEPT !.payload = "destroyed", !.block = "deallocated"]
       ELSE r[2]

\* shared_ptr(T* ptr): new control_block(ptr), m_ref_count{1}
draft_ctor(D, h) ==
    [D EXCEPT !.handle[h] = "owner", !.block = "allocated", !.m_ref_count = 1,
              !.payload = "alive"]

\* shared_ptr(const shared_ptr& other): if (m_control_block_ptr) increment()
draft_copy_ctor(D, h, other) ==
    IF D.handle[other] = "owner"
    THEN [D EXCEPT !.handle[h] = "owner", !.m_ref_count = @ + 1]
    ELSE [D EXCEPT !.handle[h] = "empty"]

\* shared_ptr(shared_ptr&& other): std::exchange of both members
draft_move_ctor(D, h, other) ==
    [D EXCEPT !.handle[h] = D.handle[other], !.handle[other] = "empty"]

\* ~shared_ptr(): if (m_control_block_ptr) m_control_block_ptr->release_shared()
draft_dtor(D, h) ==
    IF D.handle[h] = "owner"
    THEN [draft_release_shared(D) EXCEPT !.handle[h] = "unborn"]
    ELSE [D EXCEPT !.handle[h] = "unborn"]

D_Ctor(h) ==
    /\ draft.handle[h] = "unborn" /\ draft.block = "unallocated"
    /\ DraftStep(draft_ctor(draft, h))

D_CtorDefault(h) ==
    /\ draft.handle[h] = "unborn"
    /\ DraftStep([draft EXCEPT !.handle[h] = "empty"])

D_CopyCtor(h, other) ==
    /\ draft.handle[h] = "unborn" /\ draft.handle[other] # "unborn"
    /\ DraftStep(draft_copy_ctor(draft, h, other))

D_MoveCtor(h, other) ==
    /\ draft.handle[h] = "unborn" /\ draft.handle[other] # "unborn"
    /\ DraftStep(draft_move_ctor(draft, h, other))

D_Dtor(h) ==
    /\ draft.handle[h] # "unborn"
    /\ DraftStep(draft_dtor(draft, h))

NextDraft ==
    \/ \E h \in DraftHandles : D_Ctor(h)
    \/ \E h \in DraftHandles : D_CtorDefault(h)
    \/ \E h \in DraftHandles, other \in DraftHandles : D_CopyCtor(h, other)
    \/ \E h \in DraftHandles, other \in DraftHandles : D_MoveCtor(h, other)
    \/ \E h \in DraftHandles : D_Dtor(h)

SpecDraft == InitDraft /\ [][NextDraft]_vars

\* C36: in the draft control blocks, release_shared() called by the last
\* owner (count 1) destroys the payload and deallocates the control block,
\* and a release by an owner that is not the last destroys nothing.
C36_DraftLastReleaseDestroys ==
    [][\A h \in DraftHandles :
         D_Dtor(h) /\ draft.handle[h] = "owner" =>
            IF draft.m_ref_count = 1
            THEN draft'.payload = "destroyed" /\ draft'.block = "deallocated"
            ELSE draft'.payload = draft.payload /\ draft'.block = draft.block]_vars

\* ======================================= dev::shared_ptr claims, continued
\* the payloads that live inside a control_block_with_storage
Embedded == {p \in PayloadIds : payloads[p].inBlock # Null}

\* C37: the payload embedded in the control block of a make_shared handle
\* ends its life once, by the destruction of its control block, and never
\* by the pointer-deleting destroyer being applied to the embedded member,
\* also when its sole owner calls reset(p).
C37_EmbeddedPayloadDiesWithBlock ==
    /\ ub # "delete_of_embedded_object"
    /\ \A p \in Embedded :
          /\ payloads[p].destroyed <= 1
          /\ payloads[p].by \in {"none", "block_destructor"}

\* C38: no operation calls into a null control-block pointer: the
\* destructor reaching release_shared and reset reaching the decrement of
\* the counter always find a control block, also for a moved-from handle
\* and for a handle whose constructor could not allocate its control block.
C38_NoCallThroughNullControlBlock == ub # "null_control_block"

\* ================================= reset against a concurrent destructor
\* Thread Main calls reset(p) on its handle while each of the other threads
\* that share the control block destroys its own handle.  The destructor
\* threads take the steps T_Decrement .. T_Finish; reset_base is split at
\* its atomic decrement.
NewPayload == 2

InitReset ==
    /\ arrayMode \in BOOLEAN
    /\ \E kind \in {"raw", "deleter", "storage"}, sharers \in SUBSET Workers :
        LET S0 == [handles |-> [h \in Slots |-> NoHandle],
                   blocks |-> [c \in BlockIds |-> NoBlock],
                   payloads |-> [p \in PayloadIds |-> NoPayload],
                   ub |-> "none"]
            S1 == IF kind = "storage"
                  THEN make_shared(S0, Main, FirstPayload, <<1>>)
                  ELSE IF kind = "deleter"
                  THEN ctor_deleter(new_payload(S0, FirstPayload), Main, FirstPayload)
                  ELSE ctor_raw(new_payload(S0, FirstPayload), Main, FirstPayload, arrayMode)
            S2 == [S1 EXCEPT
                     !.handles = [h \in Slots |-> IF h \in sharers THEN S1.handles[Main] ELSE @[h]],
                     !.blocks[S1.handles[Main].m_control_block_ptr].m_ref_count =
                         1 + Cardinality(sharers)]
            S3 == new_payload(S2, NewPayload)
        IN /\ sharers # {}
           /\ kind = "storage" => ~arrayMode
           /\ handles = S3.handles
           /\ blocks = S3.blocks
           /\ payloads = S3.payloads
           /\ ub = S3.ub
           /\ pc = [t \in Handles |-> IF t = Main THEN "reset"
                                      ELSE IF t \in sharers THEN "used" ELSE "done"]
    /\ thrown = "none"
    /\ sawZero = [t \in Handles |-> FALSE]
    /\ RestInit

\* reset_base: if (--m_control_block_ptr->m_ref_count == 0)
R_Decrement ==
    /\ Running /\ pc[Main] = "reset"
    /\ LET cb == handles[Main].m_control_block_ptr IN
       IF blocks[cb].state # "live"
       THEN CommitT(Stop(Cur, "use_after_free"), Main, "decremented") /\ UNCHANGED sawZero
       ELSE LET S1 == pre_decrement(Cur, cb) IN
            /\ CommitT(S1, Main, "decremented")
            /\ sawZero' = [sawZero EXCEPT ![Main] = (S1.blocks[cb].m_ref_count = 0)]

\* reset_base: m_control_block_ptr->m_destroy_wrapper(m_raw_underlying_ptr)
R_DestroyOld ==
    /\ Running /\ pc[Main] = "decremented" /\ sawZero[Main]
    /\ LET cb == handles[Main].m_control_block_ptr IN
       CommitT(IF blocks[cb].state # "live" THEN Stop(Cur, "use_after_free")
               ELSE destroy_wrapper_call(Cur, cb, get(Cur, Main)), Main, "old_destroyed")
    /\ UNCHANGED sawZero

\* reset_base: m_control_block_ptr->m_ref_count.store(1u)
R_StoreOne ==
    /\ Running /\ pc[Main] = "old_destroyed"
    /\ LET cb == handles[Main].m_control_block_ptr IN
       CommitT(IF blocks[cb].state # "live" THEN Stop(Cur, "use_after_free")
               ELSE [Cur EXCEPT !.blocks[cb].m_ref_count = 1], Main, "block_set")
    /\ UNCHANGED sawZero

\* reset_base: m_control_block_ptr = new control_block(1u, std::move(wrapper))
R_NewBlock ==
    /\ Running /\ pc[Main] = "decremented" /\ ~sawZero[Main]
    /\ LET ncb == FreshBlock(Cur)
           S1 == new_control_block(Cur, ncb, 1, DefaultDeleter(arrayMode))
       IN CommitT([S1 EXCEPT !.handles[Main].m_control_block_ptr = ncb], Main, "block_set")
    /\ UNCHANGED sawZero

\* reset_base: m_raw_underlying_ptr = ptr
R_SetPointer ==
    /\ Running /\ pc[Main] = "block_set"
    /\ CommitT([Cur EXCEPT !.handles[Main].m_raw_underlying_ptr = NewPayload], Main, "reset_done")
    /\ UNCHANGED sawZero

NextReset ==
    \/ R_Decrement
    \/ R_DestroyOld
    \/ R_StoreOne
    \/ R_NewBlock
    \/ R_SetPointer
    \/ \E t \in Workers : T_Decrement(t)
    \/ \E t \in Workers : T_DestroyPayload(t)
    \/ \E t \in Workers : T_DeleteBlock(t)
    \/ \E t \in Workers : T_Finish(t)

SpecReset == InitReset /\ [][NextReset]_vars

ResetAllDone == pc[Main] = "reset_done" /\ \A t \in Workers : pc[t] = "done"

\* C39: when reset(p) on a runs against the destruction of the handles that
\* share a's control block, no thread touches a freed control block or
\* performs another undefined operation, the old payload is destroyed
\* exactly once, the old control block is deallocated once or kept by a
\* alone, and a ends up owning p with use_count() == 1.
C39_ResetAgainstDestroy ==
    /\ ub = "none"
    /\ payloads[FirstPayload].destroyed <= 1
    /\ payloads[NewPayload].destroyed = 0
    /\ ResetAllDone =>
          /\ payloads[FirstPayload].destroyed = 1
          /\ get(Cur, Main) = NewPayload
          /\ use_count(Cur, Main) = 1
          /\ blocks[handles[Main].m_control_block_ptr].state = "live"
          /\ \/ blocks[FirstBlock].state = "freed"
             \/ handles[Main].m_control_block_ptr = FirstBlock

\* the same for handles whose payload is not embedded in the control block
C39_ResetAgainstDestroyRawPointer ==
    blocks[FirstBlock].storage \/ C39_ResetAgainstDestroy

====
